---- MODULE Spec2Model ----
(***************************************************************************)
(* Model of the document pipeline of src/src/routes/ai.ts: the chunker     *)
(* splitTextIntoChunks and the /summarize-document fan-out, followed by    *)
(* the question synthesizer, the quiz and grading handlers, the concept    *)
(* extractor, the summary length hints and the signup controller.          *)
(*                                                                         *)
(* A text is a sequence of one-character strings.  The alphabet keeps one  *)
(* letter, one sentence terminator, the space and the newline, which are   *)
(* the character classes the regular expressions of the chunker tell       *)
(* apart, and a second letter so that reordering is visible.               *)
(***************************************************************************)
EXTENDS Integers, Sequences, FiniteSets, TLC

\* ---------------------------------------------------------------- bounds
MaxTextLen == 7
MaxChunkArg == 4
MaxChunks == 3
MaxAnswers == 3
MaxScoreLen == 10
MaxBlocks == 6
MaxRefine == 3
MaxWordCount == 2100
MaxCalls == 3
MaxSignups == 3

\* ------------------------------------------------------ program constants
MAX_CHUNK_SIZE == 2000
MAX_TOTAL_CHARS == 40000

\* ------------------------------------------------------------ characters
Whitespace == {" ", "\n"}
Terminators == {".", "!", "?"}
Alphabet == {"a", "b", ".", " ", "\n"}

IsSpace(c) == c \in Whitespace

Texts == UNION {[1..n -> Alphabet] : n \in 0..MaxTextLen}

Max(S) == CHOOSE x \in S : \A y \in S : y <= x
Min(S) == CHOOSE x \in S : \A y \in S : x <= y

\* String.prototype.trim
Trim(s) ==
  LET keep == {i \in 1..Len(s) : ~IsSpace(s[i])}
  IN IF keep = {} THEN <<>> ELSE SubSeq(s, Min(keep), Max(keep))

\* last index of the maximal whitespace run that starts at p (s[p] is whitespace)
WsRunEnd(s, p) ==
  CHOOSE r \in p..Len(s) :
    /\ \A k \in p..r : IsSpace(s[k])
    /\ (r = Len(s) \/ ~IsSpace(s[r + 1]))

\* end of the match of /\n\s*\n/ that starts at p, 0 when there is none
ParaMatchEnd(s, p) ==
  IF s[p] # "\n" THEN 0
  ELSE LET r == WsRunEnd(s, p)
           nl == {q \in (p + 1)..r : s[q] = "\n"}
       IN IF nl = {} THEN 0 ELSE Max(nl)

\* end of the match of /(?<=[.!?])\s+/ that starts at p, 0 when there is none
SentMatchEnd(s, p) ==
  IF p > 1 /\ s[p - 1] \in Terminators /\ IsSpace(s[p]) THEN WsRunEnd(s, p) ELSE 0

\* end of the match of /\s+/ that starts at p, 0 when there is none
WordMatchEnd(s, p) ==
  IF IsSpace(s[p]) THEN WsRunEnd(s, p) ELSE 0

RECURSIVE SplitParagraphs(_)
\* text.split(/\n\s*\n/)
SplitParagraphs(s) ==
  LET starts == {p \in 1..Len(s) : ParaMatchEnd(s, p) > 0}
  IN IF starts = {} THEN <<s>>
     ELSE LET p == Min(starts)
              e == ParaMatchEnd(s, p)
          IN <<SubSeq(s, 1, p - 1)>> \o SplitParagraphs(SubSeq(s, e + 1, Len(s)))

RECURSIVE SplitSentences(_)
\* paragraph.split(/(?<=[.!?])\s+/)
SplitSentences(s) ==
  LET starts == {p \in 1..Len(s) : SentMatchEnd(s, p) > 0}
  IN IF starts = {} THEN <<s>>
     ELSE LET p == Min(starts)
              e == SentMatchEnd(s, p)
          IN <<SubSeq(s, 1, p - 1)>> \o SplitSentences(SubSeq(s, e + 1, Len(s)))

RECURSIVE SplitWords(_)
\* sentence.split(/\s+/)
SplitWords(s) ==
  LET starts == {p \in 1..Len(s) : WordMatchEnd(s, p) > 0}
  IN IF starts = {} THEN <<s>>
     ELSE LET p == Min(starts)
              e == WordMatchEnd(s, p)
          IN <<SubSeq(s, 1, p - 1)>> \o SplitWords(SubSeq(s, e + 1, Len(s)))

\* ------------------------------------------------- splitTextIntoChunks
\* PackWord whose midpoint split resumes one character too late
PackWord_SkipsChar(st, word, maxChunkSize) ==
  IF Len(st.tempChunk) + Len(word) + 1 > maxChunkSize
  THEN IF st.tempChunk # <<>>
       THEN [chunks |-> Append(st.chunks, Trim(st.tempChunk)), tempChunk |-> word]
       ELSE LET midPoint == maxChunkSize \div 2
            IN [chunks |-> Append(st.chunks, SubSeq(word, 1, midPoint)),
                tempChunk |-> SubSeq(word, midPoint + 2, Len(word))]
  ELSE [chunks |-> st.chunks,
        tempChunk |-> st.tempChunk \o (IF st.tempChunk # <<>> THEN <<" ">> ELSE <<>>) \o word]

\* One iteration of the word loop.  st = [chunks, tempChunk].
PackWord(st, word, maxChunkSize) ==
  IF Len(st.tempChunk) + Len(word) + 1 > maxChunkSize
  THEN IF st.tempChunk # <<>>
       THEN [chunks |-> Append(st.chunks, Trim(st.tempChunk)), tempChunk |-> word]
       ELSE LET midPoint == maxChunkSize \div 2
            IN [chunks |-> Append(st.chunks, SubSeq(word, 1, midPoint)),
                tempChunk |-> SubSeq(word, midPoint + 1, Len(word))]
  ELSE [chunks |-> st.chunks,
        tempChunk |-> st.tempChunk \o (IF st.tempChunk # <<>> THEN <<" ">> ELSE <<>>) \o word]

RECURSIVE PackWords(_, _, _)
PackWords(st, words, maxChunkSize) ==
  IF words = <<>> THEN st
  ELSE PackWords(PackWord(st, Head(words), maxChunkSize), Tail(words), maxChunkSize)

\* One iteration of the sentence loop.  st = [chunks, currentChunk].
PackSentence(st, sentence, maxChunkSize) ==
  IF Len(sentence) > maxChunkSize
  THEN LET w == PackWords([chunks |-> st.chunks, tempChunk |-> <<>>],
                          SplitWords(sentence), maxChunkSize)
       IN [chunks |-> w.chunks,
           currentChunk |->
             IF w.tempChunk # <<>>
             THEN st.currentChunk
                    \o (IF st.currentChunk # <<>> THEN <<" ">> ELSE <<>>)
                    \o w.tempChunk
             ELSE st.currentChunk]
  ELSE IF Len(st.currentChunk) + Len(sentence) + 1 > maxChunkSize
  THEN [chunks |-> Append(st.chunks, Trim(st.currentChunk)), currentChunk |-> sentence]
  ELSE [chunks |-> st.chunks,
        currentChunk |->
          st.currentChunk \o (IF st.currentChunk # <<>> THEN <<" ">> ELSE <<>>) \o sentence]

RECURSIVE PackSentences(_, _, _)
PackSentences(st, sentences, maxChunkSize) ==
  IF sentences = <<>> THEN st
  ELSE PackSentences(PackSentence(st, Head(sentences), maxChunkSize),
                     Tail(sentences), maxChunkSize)

\* One iteration of the paragraph loop.  st = [chunks, currentChunk].
PackParagraph(st, paragraph, maxChunkSize) ==
  IF Len(paragraph) > maxChunkSize
  THEN PackSentences(st, SplitSentences(paragraph), maxChunkSize)
  ELSE IF Len(st.currentChunk) + Len(paragraph) + 2 > maxChunkSize
  THEN [chunks |-> Append(st.chunks, Trim(st.currentChunk)), currentChunk |-> paragraph]
  ELSE [chunks |-> st.chunks,
        currentChunk |->
          st.currentChunk
            \o (IF st.currentChunk # <<>> THEN <<"\n", "\n">> ELSE <<>>)
            \o paragraph]

RECURSIVE PackParagraphs(_, _, _)
PackParagraphs(st, paragraphs, maxChunkSize) ==
  IF paragraphs = <<>> THEN st
  ELSE PackParagraphs(PackParagraph(st, Head(paragraphs), maxChunkSize),
                      Tail(paragraphs), maxChunkSize)

splitTextIntoChunks(text, maxChunkSize) ==
  LET st == PackParagraphs([chunks |-> <<>>, currentChunk |-> <<>>],
                           SplitParagraphs(text), maxChunkSize)
  IN IF st.currentChunk # <<>>
     THEN Append(st.chunks, Trim(st.currentChunk))
     ELSE st.chunks

\* ------------------------------------------------------------- state
VARIABLES
  splitPc,        \* "call" before splitTextIntoChunks runs, "done" after
  splitText,      \* argument text
  splitMax,       \* argument maxChunkSize
  splitOut,       \* returned chunks
  hPc,            \* position of the /summarize-document handler
  req,            \* the request: upload present, extraction result, text size
  chunks,         \* chunks[i] = length of the i-th chunk of the document
  skippedChunks,  \* 1-based indices pushed by the fan-out callbacks
  slot,           \* slot[i] = state of the promise of the i-th callback
  calls,          \* calls[i] = number of hf.summarization calls for chunk i
  reply,          \* reply[i] = what the client did for chunk i
  settled,        \* indices in the order in which their promises settled
  summaries,      \* the array Promise.all resolved with
  unlinks,        \* number of fs.unlinkSync(filePath) calls
  res,            \* the response sent
  gPc,            \* position of the /verify-answers handler
  gVariant,       \* the routes module that serves /verify-answers
  gBody,          \* req.body of /verify-answers
  gRes,           \* the response of /verify-answers
  qnPc,           \* position of a call of generateQuestion
  qnVariant,      \* the routes module whose generateQuestion is called
  qnConcept,      \* the argument of generateQuestion
  qnOut,          \* what generateQuestion returned
  sumPc,          \* position of the /summarize handler
  sumReq,         \* the request of /summarize
  sumCalls,       \* the input length of every call of hf.summarization made
  sumRes,         \* the response of /summarize
  zPc,            \* position of the /generate-quiz handler
  zVariant,       \* the routes module that serves /generate-quiz
  zReq,           \* the request of /generate-quiz
  zChunks,        \* chunks
  zCursor,        \* index of the chunk the running loop is at
  zQuestions,     \* questions before refinement (quizQuestions in ai.ts)
  zCalls,         \* number of calls made to the language model
  zUnlinks,       \* number of fs.unlinkSync calls made
  zRes,           \* the response of /generate-quiz
  rfPc,           \* position of a call of refineQuestions
  rfQuestions,    \* the argument of refineQuestions
  rfOut,          \* what refineQuestions returned
  rfReplies,      \* what hf.textGeneration did for each of the questions
  lnPc,           \* position of a fan-out callback around getSummaryLengths
  lnWords,        \* text.split(/\s+/).length of the chunk it works on
  lnOut,          \* what getSummaryLengths returned
  lnParams,       \* the parameters handed to hf.summarization
  tfidf,          \* the documents of the module-level TfIdf instance
  ekLog,          \* the calls of extractKeyConcepts made in this process
  users,          \* the users array of userModel.ts
  suPc,           \* suPc[r] = position of the signup handler of request r
  suReq,          \* suReq[r] = req.body of request r
  suRes           \* suRes[r] = status of the response to request r, 0: none yet

chunkerVars == <<splitPc, splitText, splitMax, splitOut>>
handlerVars == <<hPc, req, chunks, skippedChunks, slot, calls, reply, settled,
                 summaries, unlinks, res>>
gradeVars == <<gPc, gVariant, gBody, gRes>>
questionVars == <<qnPc, qnVariant, qnConcept, qnOut>>
summarizeVars == <<sumPc, sumReq, sumCalls, sumRes>>
quizVars == <<zPc, zVariant, zReq, zChunks, zCursor, zQuestions, zCalls, zUnlinks, zRes>>
refineVars == <<rfPc, rfQuestions, rfOut, rfReplies>>
lengthVars == <<lnPc, lnWords, lnOut, lnParams>>
conceptVars == <<tfidf, ekLog>>
signupVars == <<users, suPc, suReq, suRes>>
restVars == <<lengthVars, conceptVars, signupVars>>
laterVars == <<gradeVars, questionVars, summarizeVars, quizVars, refineVars, restVars>>
earlierVars == <<chunkerVars, handlerVars, gradeVars, questionVars, summarizeVars,
                 quizVars, refineVars>>
vars == <<chunkerVars, handlerVars, laterVars>>

\* ------------------------------------------------ texts of the fan-out
\* A summary, a marker or an error message is a sequence of non-empty
\* tokens; the empty sequence is the empty string.
StartsWith(s, prefix) ==
  Len(s) >= Len(prefix) /\ SubSeq(s, 1, Len(prefix)) = prefix

Includes(s, token) == \E i \in 1..Len(s) : s[i] = token

SkippedMarker(index) ==
  <<"[", "Skipped: Chunk ", ToString(index), " is too large for the summarization model]">>
RateLimitMarker(index) ==
  <<"[", "Rate limit exceeded for section ", ToString(index), "]">>
ErrorMarker(index) ==
  <<"[", "Error", " summarizing section ", ToString(index), "]">>

\* what hf.summarization can do for one chunk
SummaryTexts == {<<>>, <<"u">>, <<"v">>, <<"[", "w">>}
ErrorMessages == {<<"rate limit", " exceeded">>, <<"HTTP ", "429">>, <<"timeout">>}
NoReply == [kind |-> "none", text |-> <<>>, message |-> <<>>]
ClientReplies ==
  {[kind |-> "returned", text |-> t, message |-> <<>>] : t \in SummaryTexts}
    \cup {[kind |-> "raised", text |-> <<>>, message |-> m] : m \in ErrorMessages}

\* ------------------------------------------------------------ responses
NoMetadata ==
  [totalChunks |-> 0, successfulSummaries |-> 0, failedSummaries |-> 0,
   skippedChunks |-> <<>>]
NoResponse == [status |-> 0, error |-> "", summary |-> <<>>, metadata |-> NoMetadata]
ErrorResponse(status, error) ==
  [status |-> status, error |-> error, summary |-> <<>>, metadata |-> NoMetadata]

\* ------------------------------------- strings of the question synthesizer
\* A string is the sequence of its characters.
UpperCase == <<"A", "B", "C", "D", "E", "F", "G", "H", "I", "J", "K", "L", "M", "N", "O", "P", "Q", "R", "S", "T", "U", "V", "W", "X", "Y", "Z">>
LowerCase == <<"a", "b", "c", "d", "e", "f", "g", "h", "i", "j", "k", "l", "m", "n", "o", "p", "q", "r", "s", "t", "u", "v", "w", "x", "y", "z">>
\* \w of the tokenizer's pattern
WordChars ==
  {UpperCase[i] : i \in DOMAIN UpperCase} \cup {LowerCase[i] : i \in DOMAIN LowerCase}
    \cup {"0", "1", "2", "3", "4", "5", "6", "7", "8", "9", "_"}

\* String.prototype.toLowerCase
ToLower(str) ==
  [i \in 1..Len(str) |->
     IF \E k \in DOMAIN UpperCase : UpperCase[k] = str[i]
     THEN LowerCase[CHOOSE k \in DOMAIN UpperCase : UpperCase[k] = str[i]]
     ELSE str[i]]

\* String.prototype.includes
IncludesStr(s, sub) ==
  \E i \in 0..(Len(s) - Len(sub)) : SubSeq(s, i + 1, i + Len(sub)) = sub

\* String.prototype.endsWith
EndsWith(s, suffix) ==
  Len(s) >= Len(suffix) /\ SubSeq(s, Len(s) - Len(suffix) + 1, Len(s)) = suffix

\* String.prototype.replace with a string pattern: the first occurrence only
ReplaceFirst(s, pattern, by) ==
  LET at == {i \in 0..(Len(s) - Len(pattern)) : SubSeq(s, i + 1, i + Len(pattern)) = pattern}
  IN IF at = {} THEN s
     ELSE LET i == Min(at)
          IN SubSeq(s, 1, i) \o by \o SubSeq(s, i + Len(pattern) + 1, Len(s))

\* Array.prototype.slice(0, end); a negative end counts from the end
SliceTo(a, end) ==
  IF end >= 0 THEN SubSeq(a, 1, Min({end, Len(a)}))
  ELSE SubSeq(a, 1, Max({Len(a) + end, 0}))

RECURSIVE SplitRuns(_, _)
\* s.split(/[Sep]+/): split at every maximal run of separator characters
SplitRuns(s, Sep) ==
  LET hits == {p \in 1..Len(s) : s[p] \in Sep}
  IN IF hits = {} THEN <<s>>
     ELSE LET p == Min(hits)
              e == CHOOSE r \in p..Len(s) :
                     /\ \A k \in p..r : s[k] \in Sep
                     /\ (r = Len(s) \/ s[r + 1] \notin Sep)
          IN <<SubSeq(s, 1, p - 1)>> \o SplitRuns(SubSeq(s, e + 1, Len(s)), Sep)

\* concept.split(/[.!?]+/).map(s => s.trim()).filter(s => s.length > 0)
Sentences(concept) ==
  LET parts == SplitRuns(concept, Terminators)
      trimmed == [i \in 1..Len(parts) |-> Trim(parts[i])]
  IN SelectSeq(trimmed, LAMBDA s : Len(s) > 0)

\* tokenizer.tokenize of natural's WordTokenizer: the maximal runs of word
\* characters
tokenize(s) ==
  LET Sep == {s[i] : i \in 1..Len(s)} \ WordChars
  IN SelectSeq(SplitRuns(s, Sep), LAMBDA t : Len(t) > 0)

\* ------------------------------------------------------ generateQuestion
\* Object.entries(conceptMap) in insertion order
conceptMap ==
  <<[key |-> <<"a", "r", "t", "i", "f", "i", "c", "i", "a", "l", " ", "i", "n", "t", "e", "l", "l", "i", "g", "e", "n", "c", "e">>,
     related |-> <<<<"m", "a", "c", "h", "i", "n", "e", " ", "l", "e", "a", "r", "n", "i", "n", "g">>,
                   <<"d", "e", "e", "p", " ", "l", "e", "a", "r", "n", "i", "n", "g">>,
                   <<"n", "e", "u", "r", "a", "l", " ", "n", "e", "t", "w", "o", "r", "k", "s">>,
                   <<"c", "o", "m", "p", "u", "t", "e", "r", " ", "v", "i", "s", "i", "o", "n">>>>],
    [key |-> <<"l", "e", "a", "r", "n", "i", "n", "g">>,
     related |-> <<<<"t", "r", "a", "i", "n", "i", "n", "g">>,
                   <<"a", "d", "a", "p", "t", "a", "t", "i", "o", "n">>,
                   <<"i", "m", "p", "r", "o", "v", "e", "m", "e", "n", "t">>,
                   <<"d", "e", "v", "e", "l", "o", "p", "m", "e", "n", "t">>>>],
    [key |-> <<"r", "e", "a", "s", "o", "n", "i", "n", "g">>,
     related |-> <<<<"l", "o", "g", "i", "c">>,
                   <<"d", "e", "d", "u", "c", "t", "i", "o", "n">>,
                   <<"i", "n", "f", "e", "r", "e", "n", "c", "e">>,
                   <<"a", "n", "a", "l", "y", "s", "i", "s">>>>],
    [key |-> <<"p", "r", "o", "b", "l", "e", "m", "-", "s", "o", "l", "v", "i", "n", "g">>,
     related |-> <<<<"a", "l", "g", "o", "r", "i", "t", "h", "m", "s">>,
                   <<"s", "o", "l", "u", "t", "i", "o", "n", "s">>,
                   <<"s", "t", "r", "a", "t", "e", "g", "i", "e", "s">>,
                   <<"m", "e", "t", "h", "o", "d", "s">>>>],
    [key |-> <<"p", "e", "r", "c", "e", "p", "t", "i", "o", "n">>,
     related |-> <<<<"s", "e", "n", "s", "i", "n", "g">>,
                   <<"r", "e", "c", "o", "g", "n", "i", "t", "i", "o", "n">>,
                   <<"u", "n", "d", "e", "r", "s", "t", "a", "n", "d", "i", "n", "g">>,
                   <<"i", "n", "t", "e", "r", "p", "r", "e", "t", "a", "t", "i", "o", "n">>>>],
    [key |-> <<"d", "e", "c", "i", "s", "i", "o", "n", "-", "m", "a", "k", "i", "n", "g">>,
     related |-> <<<<"c", "h", "o", "i", "c", "e", "s">>,
                   <<"j", "u", "d", "g", "m", "e", "n", "t">>,
                   <<"e", "v", "a", "l", "u", "a", "t", "i", "o", "n">>,
                   <<"s", "e", "l", "e", "c", "t", "i", "o", "n">>>>],
    [key |-> <<"a", "p", "p", "l", "i", "c", "a", "t", "i", "o", "n", "s">>,
     related |-> <<<<"u", "s", "e", "s">>,
                   <<"i", "m", "p", "l", "e", "m", "e", "n", "t", "a", "t", "i", "o", "n", "s">>,
                   <<"d", "e", "p", "l", "o", "y", "m", "e", "n", "t", "s">>,
                   <<"s", "y", "s", "t", "e", "m", "s">>>>],
    [key |-> <<"r", "e", "s", "e", "a", "r", "c", "h">>,
     related |-> <<<<"s", "t", "u", "d", "y">>,
                   <<"i", "n", "v", "e", "s", "t", "i", "g", "a", "t", "i", "o", "n">>,
                   <<"d", "e", "v", "e", "l", "o", "p", "m", "e", "n", "t">>,
                   <<"e", "x", "p", "l", "o", "r", "a", "t", "i", "o", "n">>>>],
    [key |-> <<"g", "o", "a", "l", "s">>,
     related |-> <<<<"o", "b", "j", "e", "c", "t", "i", "v", "e", "s">>,
                   <<"a", "i", "m", "s">>,
                   <<"t", "a", "r", "g", "e", "t", "s">>,
                   <<"p", "u", "r", "p", "o", "s", "e", "s">>>>],
    [key |-> <<"t", "o", "o", "l", "s">>,
     related |-> <<<<"t", "e", "c", "h", "n", "i", "q", "u", "e", "s">>,
                   <<"m", "e", "t", "h", "o", "d", "s">>,
                   <<"a", "p", "p", "r", "o", "a", "c", "h", "e", "s">>,
                   <<"t", "e", "c", "h", "n", "o", "l", "o", "g", "i", "e", "s">>>>],
    [key |-> <<"d", "a", "t", "a">>,
     related |-> <<<<"i", "n", "f", "o", "r", "m", "a", "t", "i", "o", "n">>,
                   <<"f", "a", "c", "t", "s">>,
                   <<"s", "t", "a", "t", "i", "s", "t", "i", "c", "s">>,
                   <<"k", "n", "o", "w", "l", "e", "d", "g", "e">>>>],
    [key |-> <<"m", "o", "d", "e", "l">>,
     related |-> <<<<"s", "y", "s", "t", "e", "m">>,
                   <<"f", "r", "a", "m", "e", "w", "o", "r", "k">>,
                   <<"s", "t", "r", "u", "c", "t", "u", "r", "e">>,
                   <<"d", "e", "s", "i", "g", "n">>>>],
    [key |-> <<"a", "l", "g", "o", "r", "i", "t", "h", "m">>,
     related |-> <<<<"p", "r", "o", "c", "e", "d", "u", "r", "e">>,
                   <<"p", "r", "o", "c", "e", "s", "s">>,
                   <<"m", "e", "t", "h", "o", "d">>,
                   <<"t", "e", "c", "h", "n", "i", "q", "u", "e">>>>],
    [key |-> <<"s", "y", "s", "t", "e", "m">>,
     related |-> <<<<"f", "r", "a", "m", "e", "w", "o", "r", "k">>,
                   <<"s", "t", "r", "u", "c", "t", "u", "r", "e">>,
                   <<"o", "r", "g", "a", "n", "i", "z", "a", "t", "i", "o", "n">>,
                   <<"s", "e", "t", "u", "p">>>>],
    [key |-> <<"t", "e", "c", "h", "n", "o", "l", "o", "g", "y">>,
     related |-> <<<<"i", "n", "n", "o", "v", "a", "t", "i", "o", "n">>,
                   <<"d", "e", "v", "e", "l", "o", "p", "m", "e", "n", "t">>,
                   <<"a", "d", "v", "a", "n", "c", "e", "m", "e", "n", "t">>,
                   <<"p", "r", "o", "g", "r", "e", "s", "s">>>>]>>

\* the stop lists of part_001 (short) and of part_002 (long)
StopWords ==
  [short |->
     {<<"t", "h", "e">>,
      <<"a", "n", "d">>,
      <<"t", "h", "a", "t">>,
      <<"t", "h", "i", "s">>,
      <<"w", "i", "t", "h">>,
      <<"f", "r", "o", "m">>,
      <<"h", "a", "v", "e">>,
      <<"t", "h", "e", "y">>,
      <<"t", "h", "e", "i", "r">>,
      <<"t", "h", "e", "r", "e">>},
   long |->
     {<<"t", "h", "e">>,
      <<"a", "n", "d">>,
      <<"t", "h", "a", "t">>,
      <<"t", "h", "i", "s">>,
      <<"w", "i", "t", "h">>,
      <<"f", "r", "o", "m">>,
      <<"h", "a", "v", "e">>,
      <<"t", "h", "e", "y">>,
      <<"t", "h", "e", "i", "r">>,
      <<"t", "h", "e", "r", "e">>,
      <<"a", "b", "o", "u", "t">>,
      <<"w", "h", "a", "t">>,
      <<"w", "h", "e", "n">>,
      <<"w", "h", "e", "r", "e">>,
      <<"w", "h", "i", "c", "h">>,
      <<"w", "h", "o">>,
      <<"w", "h", "y">>,
      <<"h", "o", "w">>,
      <<"r", "e", "m", "e", "m", "b", "e", "r">>,
      <<"t", "h", "i", "n", "k">>,
      <<"k", "n", "o", "w">>,
      <<"w", "a", "s">>,
      <<"w", "e", "r", "e">>,
      <<"w", "i", "l", "l">>,
      <<"w", "o", "u", "l", "d">>,
      <<"c", "o", "u", "l", "d">>,
      <<"s", "h", "o", "u", "l", "d">>,
      <<"m", "i", "g", "h", "t">>,
      <<"m", "a", "y">>,
      <<"m", "u", "s", "t">>,
      <<"v", "e", "r", "y">>,
      <<"m", "u", "c", "h">>,
      <<"m", "a", "n", "y">>,
      <<"s", "o", "m", "e">>,
      <<"a", "n", "y">>,
      <<"a", "l", "l">>,
      <<"n", "o", "n", "e">>,
      <<"b", "o", "t", "h">>,
      <<"e", "i", "t", "h", "e", "r">>,
      <<"n", "e", "i", "t", "h", "e", "r">>,
      <<"e", "a", "c", "h">>,
      <<"e", "v", "e", "r", "y">>,
      <<"f", "e", "w">>,
      <<"s", "e", "v", "e", "r", "a", "l">>,
      <<"m", "o", "s", "t">>,
      <<"m", "o", "r", "e">>,
      <<"l", "e", "s", "s">>,
      <<"l", "e", "a", "s", "t">>}]

\* the concept strings given to generateQuestion
Concepts ==
  {<<>>,
   <<"a", "i", " ", "i", "s", " ", "f", "u", "n">>,
   <<"t", "h", "e", " ", "c", "a", "t", " ", "s", "a", "t", " ", "o", "n", " ", "a", " ", "m", "a", "t">>,
   <<"Z", "e", "b", "r", "a", "s", " ", "e", "a", "t", " ", "t", "h", "e", " ", "g", "r", "e", "e", "n", " ", "g", "r", "a", "s", "s", ".">>,
   <<"t", "i", "g", "e", "r", "s", " ", "c", "h", "a", "s", "e", " ", "t", "i", "g", "e", "r", "s", " ", "a", "n", "d", " ", "s", "m", "a", "l", "l", " ", "b", "i", "r", "d", "s">>,
   <<"a", " ", "m", "o", "d", "e", "l", " ", "i", "s", " ", "t", "h", "e", " ", "c", "o", "r", "e", " ", "o", "f", " ", "i", "t">>,
   <<"a", "p", "p", "l", "e", " ", "a", "n", "d", " ", "l", "e", "m", "o", "n", " ", "a", "r", "e", " ", "o", "n", " ", "a", " ", "m", "a", "t">>,
   <<"A", " ", "m", "o", "d", "e", "l", " ", "i", "s", " ", "t", "h", "e", " ", "b", "e", "s", "t", " ", "t", "o", "o", "l", " ", "h", "e", "r", "e", ".", " ", "I", "t", " ", "w", "o", "r", "k", "s", ".">>}

\* the string literals of the three versions of generateQuestion
Txt ==
  [isThe |-> <<"i", "s", " ", "t", "h", "e">>,
   areThe |-> <<"a", "r", "e", " ", "t", "h", "e">>,
   include |-> <<"i", "n", "c", "l", "u", "d", "e">>,
   founded |-> <<"f", "o", "u", "n", "d", "e", "d">>,
   established |-> <<"e", "s", "t", "a", "b", "l", "i", "s", "h", "e", "d">>,
   capability |-> <<"c", "a", "p", "a", "b", "i", "l", "i", "t", "y">>,
   abilities |-> <<"a", "b", "i", "l", "i", "t", "i", "e", "s">>,
   used |-> <<"u", "s", "e", "d">>,
   uses |-> <<"u", "s", "e", "s">>,
   important |-> <<"i", "m", "p", "o", "r", "t", "a", "n", "t">>,
   significance |-> <<"s", "i", "g", "n", "i", "f", "i", "c", "a", "n", "c", "e">>,
   is |-> <<"i", "s">>,
   are |-> <<"a", "r", "e">>,
   the |-> <<"t", "h", "e">>,
   a |-> <<"a", " ">>,
   an |-> <<"a", "n", " ">>,
   ing |-> <<"i", "n", "g">>,
   ed |-> <<"e", "d">>,
   blank |-> <<"_", "_", "_", "_", "_">>,
   whatIs |-> <<"W", "h", "a", "t", " ", "i", "s">>,
   whichOf |-> <<"W", "h", "i", "c", "h", " ", "o", "f", " ", "t", "h", "e", " ", "f", "o", "l", "l", "o", "w", "i", "n", "g">>,
   whatIsSp |-> <<"W", "h", "a", "t", " ", "i", "s", " ">>]

\* the question templates of ai.ts: the text before and after the main concept
Templates ==
  [definition |-> [before |-> <<"W", "h", "a", "t", " ", "i", "s", " ", "t", "h", "e", " ", "d", "e", "f", "i", "n", "i", "t", "i", "o", "n", " ", "o", "f", " ">>,
       after |-> <<"?">>],
   component |-> [before |-> <<"W", "h", "i", "c", "h", " ", "o", "f", " ", "t", "h", "e", " ", "f", "o", "l", "l", "o", "w", "i", "n", "g", " ", "i", "s", " ", "a", " ", "k", "e", "y", " ", "c", "o", "m", "p", "o", "n", "e", "n", "t", " ", "o", "f", " ">>,
       after |-> <<"?">>],
   established |-> [before |-> <<"W", "h", "e", "n", " ", "w", "a", "s", " ">>,
       after |-> <<" ", "f", "i", "r", "s", "t", " ", "e", "s", "t", "a", "b", "l", "i", "s", "h", "e", "d", " ", "a", "s", " ", "a", " ", "f", "i", "e", "l", "d", " ", "o", "f", " ", "s", "t", "u", "d", "y", "?">>],
   capability |-> [before |-> <<"W", "h", "a", "t", " ", "i", "s", " ", "a", " ", "p", "r", "i", "m", "a", "r", "y", " ", "c", "a", "p", "a", "b", "i", "l", "i", "t", "y", " ", "o", "f", " ">>,
       after |-> <<"?">>],
   use |-> [before |-> <<"W", "h", "a", "t", " ", "i", "s", " ", "t", "h", "e", " ", "p", "r", "i", "m", "a", "r", "y", " ", "u", "s", "e", " ", "o", "f", " ">>,
       after |-> <<"?">>],
   important |-> [before |-> <<"W", "h", "y", " ", "i", "s", " ">>,
       after |-> <<" ", "i", "m", "p", "o", "r", "t", "a", "n", "t", "?">>],
   describes |-> [before |-> <<"W", "h", "i", "c", "h", " ", "o", "f", " ", "t", "h", "e", " ", "f", "o", "l", "l", "o", "w", "i", "n", "g", " ", "b", "e", "s", "t", " ", "d", "e", "s", "c", "r", "i", "b", "e", "s", " ">>,
       after |-> <<"?">>]]

\* what generateQuestion gives back: null, a question, or, of kind "hang",
\* nothing at all when its padding loop never ends
NullQuestion == [kind |-> "null", question |-> <<>>, options |-> <<>>, correct |-> <<>>]
Question(question, options, correct) ==
  [kind |-> "question", question |-> question, options |-> options, correct |-> correct]

\* options.sort(() => Math.random() - 0.5) followed by options.slice(0, 4):
\* pick[i] is the position, before the shuffle, of the option that the
\* shuffle leaves at position i
Picks(n) ==
  {f \in [1..Min({4, n}) -> 1..n] : \A i, j \in DOMAIN f : i # j => f[i] # f[j]}
ShuffleSlice(options, pick) == [i \in DOMAIN pick |-> options[pick[i]]]

\* the question of ai.ts for the cue words of the sentence
QuestionAbout(lowerSentence, mainConcept) ==
  LET t == IF IncludesStr(lowerSentence, Txt.isThe) \/ IncludesStr(lowerSentence, Txt.areThe)
           THEN Templates.definition
           ELSE IF IncludesStr(lowerSentence, Txt.include)
           THEN Templates.component
           ELSE IF IncludesStr(lowerSentence, Txt.founded) \/ IncludesStr(lowerSentence, Txt.established)
           THEN Templates.established
           ELSE IF IncludesStr(lowerSentence, Txt.capability) \/ IncludesStr(lowerSentence, Txt.abilities)
           THEN Templates.capability
           ELSE IF IncludesStr(lowerSentence, Txt.used) \/ IncludesStr(lowerSentence, Txt.uses)
           THEN Templates.use
           ELSE IF IncludesStr(lowerSentence, Txt.important) \/ IncludesStr(lowerSentence, Txt.significance)
           THEN Templates.important
           ELSE Templates.describes
  IN t.before \o mainConcept \o t.after

\* generateQuestion of ai.ts up to the shuffle: the question with all its
\* options in the order they were pushed; Shuffled is applied to it. After
\* otherConcepts is pushed the list has at least 4 entries, so the loop
\* "while (options.length < 4)" is not entered.
generateQuestion(concept) ==
  LET sentences == Sentences(concept)
  IN IF sentences = <<>> THEN NullQuestion
     ELSE LET sentence == sentences[1]
              words == tokenize(sentence)
              lowerSentence == ToLower(sentence)
              hits == {k \in DOMAIN conceptMap : IncludesStr(lowerSentence, conceptMap[k].key)}
              keyTerms == SelectSeq(words, LAMBDA word : Len(word) > 4)
          IN IF Len(words) < 5 THEN NullQuestion
             ELSE IF hits = {} /\ keyTerms = <<>> THEN NullQuestion
             ELSE LET mainConcept == IF hits # {} THEN conceptMap[Min(hits)].key
                                     ELSE keyTerms[1]
                      relatedConcepts == IF hits # {} THEN conceptMap[Min(hits)].related
                                         ELSE SubSeq(keyTerms, 2, Min({4, Len(keyTerms)}))
                      options == <<mainConcept>> \o relatedConcepts
                      otherConcepts ==
                        SliceTo(SelectSeq([i \in DOMAIN conceptMap |-> conceptMap[i].key],
                                          LAMBDA c : c # mainConcept),
                                4 - Len(options))
                  IN Question(Trim(QuestionAbout(lowerSentence, mainConcept)),
                              options \o otherConcepts, mainConcept)

\* the end of generateQuestion in its three versions: the shuffle and
\* "options: options.slice(0, 4)"
Shuffled(draft, pick) ==
  IF draft.kind # "question" THEN draft
  ELSE Question(draft.question, ShuffleSlice(draft.options, pick), draft.correct)

\* the variation of part_001 for the term itself
VariationOfBase(baseTerm) ==
  IF EndsWith(baseTerm, <<"y">>) THEN SubSeq(baseTerm, 1, Len(baseTerm) - 1) \o <<"i", "e", "s">>
  ELSE IF ~EndsWith(baseTerm, <<"s">>) THEN baseTerm \o <<"s">>
  ELSE SubSeq(baseTerm, 1, Len(baseTerm) - 1)

RECURSIVE PadWithVariation(_)
\* while (options.length < 4) of part_001: the variation is pushed whether
\* or not it is already there
PadWithVariation(options) ==
  IF Len(options) >= 4 THEN options
  ELSE PadWithVariation(Append(options, VariationOfBase(options[1])))

\* the key terms of part_001
KeyTermsShort(words) ==
  SelectSeq(words, LAMBDA word :
    /\ Len(word) > 4
    /\ ToLower(word) \notin StopWords.short
    /\ ~EndsWith(ToLower(word), Txt.ing)
    /\ ~EndsWith(ToLower(word), Txt.ed))

\* generateQuestion of part_001 up to the shuffle; term is the random index
\* into keyTerms
generateQuestion_part_001(concept, term) ==
  LET words == tokenize(concept)
      keyTerms == KeyTermsShort(words)
  IN IF Len(words) < 6 THEN NullQuestion
     ELSE IF Len(keyTerms) < 2 THEN NullQuestion
     ELSE LET termToRemove == keyTerms[term]
              lower == ToLower(concept)
              question ==
                IF StartsWith(lower, Txt.the)
                THEN Txt.whatIsSp \o ReplaceFirst(SubSeq(concept, 5, Len(concept)), termToRemove, Txt.blank)
                ELSE IF StartsWith(lower, Txt.a) \/ StartsWith(lower, Txt.an)
                THEN Txt.whatIsSp \o ReplaceFirst(SubSeq(concept, 3, Len(concept)), termToRemove, Txt.blank)
                ELSE ReplaceFirst(concept, termToRemove, Txt.blank)
              otherTerms == SelectSeq(keyTerms, LAMBDA t : t # termToRemove)
              used == SubSeq(otherTerms, 1, Min({3, Len(otherTerms)}))
              options == <<termToRemove>> \o
                           [i \in 1..Len(used) |->
                              IF EndsWith(used[i], <<"s">>)
                              THEN SubSeq(used[i], 1, Len(used[i]) - 1)
                              ELSE used[i] \o <<"s">>]
          IN Question(Trim(question), PadWithVariation(options), termToRemove)

\* the variation of part_002 for the term itself
NewOption(baseTerm) ==
  IF EndsWith(baseTerm, <<"s">>) THEN SubSeq(baseTerm, 1, Len(baseTerm) - 1)
  ELSE IF EndsWith(baseTerm, <<"y">>) THEN SubSeq(baseTerm, 1, Len(baseTerm) - 1) \o <<"i", "e", "s">>
  ELSE baseTerm \o <<"s">>

RECURSIVE PadIfNew(_, _)
\* while (options.length < 4) of part_002: the variation is pushed only when
\* it is not there yet; when it is there the loop changes nothing and never
\* ends, which is the empty result here
PadIfNew(options, newOption) ==
  IF Len(options) >= 4 THEN options
  ELSE IF Includes(options, newOption) THEN <<>>
  ELSE PadIfNew(Append(options, newOption), newOption)

\* the key terms of part_002
KeyTermsLong(words) ==
  SelectSeq(words, LAMBDA word : Len(word) > 3 /\ ToLower(word) \notin StopWords.long)

\* generateQuestion of part_002 up to the shuffle; term is the random index
\* into keyTerms and whatIs the random choice between the two question types
generateQuestion_part_002(concept, term, whatIs) ==
  LET sentences == Sentences(concept)
  IN IF sentences = <<>> THEN NullQuestion
     ELSE LET sentence == sentences[1]
              words == tokenize(sentence)
              keyTerms == KeyTermsLong(words)
          IN IF Len(words) < 5 THEN NullQuestion
             ELSE IF Len(keyTerms) < 2 THEN NullQuestion
             ELSE LET termToUse == keyTerms[term]
                      lower == ToLower(sentence)
                      question ==
                        IF IncludesStr(lower, Txt.is) \/ IncludesStr(lower, Txt.are)
                        THEN ReplaceFirst(sentence, termToUse, Txt.blank)
                        ELSE (IF whatIs THEN Txt.whatIs ELSE Txt.whichOf)
                               \o <<" ">> \o ToLower(termToUse) \o <<"?">>
                      otherTerms == SelectSeq(keyTerms, LAMBDA t : t # termToUse)
                      options == <<termToUse>> \o SubSeq(otherTerms, 1, Min({3, Len(otherTerms)}))
                      padded == PadIfNew(options, NewOption(termToUse))
                  IN IF padded = <<>> THEN [NullQuestion EXCEPT !.kind = "hang"]
                     ELSE Question(Trim(question), padded, termToUse)

\* the key terms of part_002 for a concept: those of its first sentence
FirstSentenceKeyTerms(concept) ==
  IF Sentences(concept) = <<>> THEN <<>>
  ELSE KeyTermsLong(tokenize(Sentences(concept)[1]))

\* the random indices into the key terms of a concept
TermChoices(keyTerms) == IF keyTerms = <<>> THEN {1} ELSE 1..Len(keyTerms)

\* The routes module exists in three versions: src/routes/ai.ts ("ai") and
\* the two earlier files part_001 and part_002.

\* A submitted value: absent (undefined) or a string of characters.
Missing == [present |-> FALSE, str |-> <<>>]
Val(str) == [present |-> TRUE, str |-> str]

\* JavaScript truthiness of a submitted value
Truthy(v) == v.present /\ v.str # <<>>

\* The submitted lists: every list of up to MaxAnswers answers, and longer
\* lists, up to MaxScoreLen, of a right and a wrong answer.
GradeBodies ==
  LET Answers == [selectedAnswer : {Missing, Val(<<>>), Val(<<"a">>), Val(<<"A">>), Val(<<"b">>)},
                  correctAnswer : {Missing, Val(<<"a">>), Val(<<"A">>)}]
      PlainAnswers == {[selectedAnswer |-> Val(<<"A">>), correctAnswer |-> Val(<<"a">>)],
                       [selectedAnswer |-> Val(<<"b">>), correctAnswer |-> Val(<<"a">>)]}
      AnswerLists == UNION {[1..n -> Answers] : n \in 0..MaxAnswers}
                       \cup UNION {[1..n -> PlainAnswers] : n \in (MaxAnswers + 1)..MaxScoreLen}
  IN {[isArray |-> FALSE, answers |-> <<>>]}
       \cup {[isArray |-> TRUE, answers |-> a] : a \in AnswerLists}

\* (score / total) * 100 as an exact ratio; den = 0 is NaN
Percentage(score, total) == [num |-> 100 * score, den |-> total]

\* getFeedback with the first threshold read as strictly greater
getFeedback_Strict(percentage) ==
  IF percentage.den = 0 THEN "Keep studying"
  ELSE IF percentage.num > 90 * percentage.den THEN "Excellent"
  ELSE IF percentage.num >= 70 * percentage.den THEN "Good job"
  ELSE IF percentage.num >= 50 * percentage.den THEN "Not bad"
  ELSE "Keep studying"

\* getFeedback: every comparison with NaN is false
getFeedback(percentage) ==
  IF percentage.den = 0 THEN "Keep studying"
  ELSE IF percentage.num >= 90 * percentage.den THEN "Excellent"
  ELSE IF percentage.num >= 70 * percentage.den THEN "Good job"
  ELSE IF percentage.num >= 50 * percentage.den THEN "Not bad"
  ELSE "Keep studying"

\* the map callback of ai.ts
GradeAnswer(answer) ==
  IF ~Truthy(answer.selectedAnswer) \/ ~Truthy(answer.correctAnswer)
  THEN [selectedAnswer |-> IF Truthy(answer.selectedAnswer) THEN answer.selectedAnswer.str ELSE <<>>,
        correctAnswer |-> IF Truthy(answer.correctAnswer) THEN answer.correctAnswer.str ELSE <<>>,
        isCorrect |-> FALSE,
        feedback |-> "No answer provided or correct answer missing."]
  ELSE LET isCorrect == ToLower(answer.selectedAnswer.str) = ToLower(answer.correctAnswer.str)
       IN [selectedAnswer |-> answer.selectedAnswer.str,
           correctAnswer |-> answer.correctAnswer.str,
           isCorrect |-> isCorrect,
           feedback |-> IF isCorrect THEN "Correct!" ELSE "Incorrect"]

\* the map callback of part_002; it is reached only when both values are strings
GradeAnswerOld(answer) ==
  LET isCorrect == ToLower(answer.selectedAnswer.str) = ToLower(answer.correctAnswer.str)
  IN [selectedAnswer |-> answer.selectedAnswer.str,
      correctAnswer |-> answer.correctAnswer.str,
      isCorrect |-> isCorrect,
      feedback |-> IF isCorrect THEN "Correct!" ELSE "Incorrect"]

\* answer.selectedAnswer.toLowerCase() on undefined throws a TypeError
ThrowsOld(answers) ==
  \E i \in 1..Len(answers) :
    ~answers[i].selectedAnswer.present \/ ~answers[i].correctAnswer.present

\* a response without grades; status 0: nothing was sent yet
GradeError(status, error) ==
  [status |-> status, error |-> error, results |-> <<>>,
   summary |-> [score |-> 0, total |-> 0, percentage |-> Percentage(0, 0), feedback |-> ""]]

GradeReport(results) ==
  LET score == Len(SelectSeq(results, LAMBDA r : r.isCorrect))
      total == Len(results)
      percentage == Percentage(score, total)
  IN [status |-> 200, error |-> "", results |-> results,
      summary |-> [score |-> score, total |-> total, percentage |-> percentage,
                   feedback |-> getFeedback(percentage)]]

\* ---------------------------------------------------- refineQuestions
\* What hf.textGeneration does for one question: it raises, or it returns a
\* generated_text that is not JSON, or the JSON null, or a JSON object.
\* A JSON object has its own question, options and correct; a missing
\* member is the empty sequence.
RefineReplies ==
  {[kind |-> "raised", question |-> <<>>, options |-> <<>>, correct |-> <<>>],
   [kind |-> "notJson", question |-> <<>>, options |-> <<>>, correct |-> <<>>],
   [kind |-> "null", question |-> <<>>, options |-> <<>>, correct |-> <<>>]}
    \cup {[kind |-> "object",
           question |-> <<"W", "h", "i", "c", "h", " ", "o", "n", "e", "?">>,
           options |-> o,
           correct |-> <<"t", "w", "o">>] :
            o \in {<<>>,
                   <<<<"y", "e", "s">>, <<"n", "o">>>>,
                   <<<<"o", "n", "e">>, <<"t", "w", "o">>, <<"t", "h", "r", "e", "e">>,
                     <<"f", "o", "u", "r">>>>}}

\* the callback of questions.map with the correct answer taken from the reply
RefineOne_TakesReply(q, r) ==
  IF r.kind = "object" THEN Question(r.question, r.options, r.correct) ELSE q

\* the callback of questions.map: a raised call, a text JSON.parse rejects
\* and the TypeError of reading a member of null all end in "return q"
RefineOne(q, r) ==
  IF r.kind = "object" THEN Question(r.question, r.options, q.correct) ELSE q

\* refineQuestions; setupThrows: new HfInference(...) throws
refineQuestions(questions, replies, setupThrows) ==
  IF setupThrows THEN questions
  ELSE [i \in 1..Len(questions) |-> RefineOne(questions[i], replies[i])]

\* the lists given to refineQuestions: questions of generateQuestion
QuestionLists ==
  LET SampleQuestions ==
        {Shuffled(generateQuestion_part_002(c, 1, TRUE), [i \in 1..4 |-> i]) : c \in
           {<<"Z", "e", "b", "r", "a", "s", " ", "e", "a", "t", " ", "t", "h", "e", " ", "g", "r", "e", "e", "n", " ", "g", "r", "a", "s", "s", ".">>,
            <<"t", "i", "g", "e", "r", "s", " ", "c", "h", "a", "s", "e", " ", "t", "i", "g", "e", "r", "s", " ", "a", "n", "d", " ", "s", "m", "a", "l", "l", " ", "b", "i", "r", "d", "s">>}}
  IN UNION {[1..n -> SampleQuestions] : n \in 0..MaxRefine}

\* ---------------------------------------------------- extractKeyConcepts
\* A document of the TfIdf instance is the token list it was built from
\* (addDocument with an array counts every token, no stop list applies).
\* Math.log(n) in millionths, n = 1, 2, 3, ...
LnMicro ==
  <<0, 693147, 1098612, 1386294, 1609438, 1791759, 1945910, 2079442, 2197225,
    2302585, 2397895, 2484907, 2564949, 2639057, 2708050, 2772589>>

\* TfIdf.idf in millionths: 1 + Math.log(documents.length / (1 + docsWithTerm))
IdfMicro(term, documents) ==
  LET docsWithTerm == Cardinality({d \in 1..Len(documents) : Includes(documents[d], term)})
  IN 1000000 + LnMicro[Len(documents)] - LnMicro[1 + docsWithTerm]

\* tfidf.listTerms(0).filter(term => term.tfidf > 0.5).map(term => term.term):
\* the terms of document 0, the first document the instance was ever given
importantTerms(documents) ==
  {term \in {documents[1][i] : i \in 1..Len(documents[1])} :
     Cardinality({i \in 1..Len(documents[1]) : documents[1][i] = term})
       * IdfMicro(term, documents) > 500000}

RECURSIVE ForEachSentence(_, _, _)
\* sentences.forEach: the document is added, then the terms are listed
ForEachSentence(sentences, documents, concepts) ==
  IF sentences = <<>> THEN [concepts |-> concepts, documents |-> documents]
  ELSE LET added == Append(documents, tokenize(ToLower(Head(sentences))))
       IN ForEachSentence(Tail(sentences), added,
                          IF importantTerms(added) # {}
                          THEN Append(concepts, Head(sentences)) ELSE concepts)

\* extractKeyConcepts(text) with the TfIdf instance holding documents: the
\* concepts returned and the documents the instance holds afterwards.
\* Sentences trims before it filters, the code after: the kept sentences and
\* their tokens are the same.
extractKeyConcepts(text, documents) ==
  ForEachSentence(Sentences(text), documents, <<>>)

\* the texts given to extractKeyConcepts
ConceptTexts ==
  {<<>>,
   <<"a", "i", " ", "i", "s", " ", "f", "u", "n">>,
   <<"g", "o", " ", "g", "o", ".", " ", "a", "i", " ", "i", "s", " ", "f", "u", "n", ".">>,
   <<"!", " ", "?">>,
   <<"g", "o", " ", "g", "o", ".", " ", "a", "p", "p", "l", "e", " ", "a", "n", "d", " ", "l", "e", "m", "o", "n", " ", "a", "r", "e", " ", "o", "n", " ", "a", " ", "m", "a", "t", ".", " ", "a", "p", "p", "l", "e", " ", "a", "n", "d", " ", "l", "e", "m", "o", "n", " ", "a", "r", "e", " ", "o", "n", " ", "a", " ", "m", "a", "t", ".">>,
   <<"a", "p", "p", "l", "e", " ", "a", "n", "d", " ", "l", "e", "m", "o", "n", " ", "a", "r", "e", " ", "o", "n", " ", "a", " ", "m", "a", "t", ".", " ", "a", "p", "p", "l", "e", " ", "a", "n", "d", " ", "l", "e", "m", "o", "n", " ", "a", "r", "e", " ", "o", "n", " ", "a", " ", "m", "a", "t">>}

\* ------------------------------------------------------- /generate-quiz
SUMMARIZE_MAX_CHARS == 8000
QUIZ_MAX_CHARS == 4000
MAX_TEXT_LENGTH == 4000
QUIZ_SIZE == 5

\* text.length > 4000 never true: the ceiling is not applied
QuizTooLong_Never(textLen) == FALSE

\* text.length > 4000
QuizTooLong(textLen) == textLen > QUIZ_MAX_CHARS

\* a response without questions; status 0: nothing was sent yet
QuizError(status, error) == [status |-> status, error |-> error, questions |-> <<>>]
QuizReport(questions) == [status |-> 200, error |-> "", questions |-> questions]

\* The requests of /generate-quiz of ai.ts: the text is known by its length
\* only; fileTextLen is the length of the text extracted from the upload.
QuizRequestsAi ==
  {r \in [text : {<<>>}, textLen : {0, QUIZ_MAX_CHARS, QUIZ_MAX_CHARS + 1}, file : BOOLEAN,
          extractThrows : BOOLEAN, fileTextLen : {0, QUIZ_MAX_CHARS, QUIZ_MAX_CHARS + 1},
          apiKey : BOOLEAN] :
     /\ (~r.file => (~r.extractThrows /\ r.fileTextLen = 0))
     /\ (r.extractThrows => r.fileTextLen = 0)}

\* the requests of /generate-quiz of part_002, one for every posted text
QuizRequestsOld ==
  {[text |-> t, textLen |-> Len(t), file |-> FALSE, extractThrows |-> FALSE,
    fileTextLen |-> 0, apiKey |-> TRUE] : t \in
     {<<>>,
      <<"\n", "\n">>,
      <<"a", "i", " ", "i", "s", " ", "f", "u", "n">>,
      <<"a", "i", " ", "i", "s", " ", "f", "u", "n", "\n", "\n", "A", " ", "m", "o", "d", "e", "l", " ", "i", "s", " ", "t", "h", "e", " ", "b", "e", "s", "t", " ", "t", "o", "o", "l", " ", "h", "e", "r", "e">>,
      <<"A", " ", "m", "o", "d", "e", "l", " ", "i", "s", " ", "t", "h", "e", " ", "b", "e", "s", "t", " ", "t", "o", "o", "l", " ", "h", "e", "r", "e", " ", "t", "o", "d", "a", "y">>,
      <<"a", " ", "m", "o", "d", "e", "l", " ", "i", "s", " ", "t", "h", "e", " ", "c", "o", "r", "e", " ", "o", "f", " ", "i", "t">>,
      <<"A", " ", "m", "o", "d", "e", "l", " ", "i", "s", " ", "t", "h", "e", " ", "b", "e", "s", "t", " ", "t", "o", "o", "l", " ", "h", "e", "r", "e">>
        \o <<"\n", "\n">> \o <<"A", " ", "m", "o", "d", "e", "l", " ", "i", "s", " ", "t", "h", "e", " ", "b", "e", "s", "t", " ", "t", "o", "o", "l", " ", "h", "e", "r", "e">>}}

\* the requests of /generate-quiz of part_001
QuizRequests_part_001 ==
  {[text |-> t, textLen |-> Len(t), file |-> FALSE, extractThrows |-> FALSE,
    fileTextLen |-> 0, apiKey |-> TRUE] : t \in ConceptTexts}

\* The content of the Groq reply is a sequence of tokens: "Q:" is a match of
\* /Q\d+:/, "\n" a line break, "A." to "D." and "Answer:" the line prefixes,
\* "*" the asterisk; every other token is text without any of these.
Blocks ==
  {<<"Q:", "q", "\n", "A.", "x", "\n", "B.", "*", "y", "\n", "C.", "z", "\n", "D.", "w", "\n">>,
   <<"Q:", "q", "\n", "A.", "x", "\n", "B.", "y", "\n", "C.", "z", "\n", "D.", "w", "\n",
     "Answer:", "B", "\n">>,
   <<"Q:", "q", "\n", "A.", "*", "x", "\n", "B.", "y", "\n">>}

RECURSIVE Concat(_)
Concat(seqs) == IF seqs = <<>> THEN <<>> ELSE Head(seqs) \o Concat(Tail(seqs))

Contents ==
  {p \o Concat(bs) : p \in {<<>>, <<"Here", "\n">>}, bs \in UNION {[1..n -> Blocks] : n \in 0..MaxBlocks}}

\* what axios.post to Groq does: it raises, or it returns a content
GroqReplies ==
  {[kind |-> "raised", content |-> <<>>]}
    \cup {[kind |-> "returned", content |-> c] : c \in Contents}

RECURSIVE SplitEach(_, _)
\* split at every token sep
SplitEach(s, sep) ==
  LET hits == {p \in 1..Len(s) : s[p] = sep}
  IN IF hits = {} THEN <<s>>
     ELSE <<SubSeq(s, 1, Min(hits) - 1)>> \o SplitEach(SubSeq(s, Min(hits) + 1, Len(s)), sep)

\* one question block of the content (the body of the for loop)
ParseBlock(block) ==
  LET lines == SelectSeq(SplitEach(block, "\n"), LAMBDA l : l # <<>>)
      question == IF lines = <<>> THEN <<>> ELSE lines[1]
      rest == IF lines = <<>> THEN <<>> ELSE Tail(lines)
      optionLines == SelectSeq(rest, LAMBDA l : l[1] \in {"A.", "B.", "C.", "D."})
      answerLines == SelectSeq(rest, LAMBDA l : l[1] = "Answer:")
      raw == [j \in 1..Len(optionLines) |-> Tail(optionLines[j])]
      answered == IF answerLines = <<>> THEN <<>> ELSE Tail(answerLines[Len(answerLines)])
      starred == {j \in 1..Len(raw) : Includes(raw[j], "*")}
      options == [j \in 1..Len(raw) |->
                    IF j \in starred THEN ReplaceFirst(raw[j], <<"*">>, <<>>) ELSE raw[j]]
      correct == IF starred = {} THEN answered ELSE options[Max(starred)]
  IN Question(question, options, correct)

\* content.split(/Q\d+:/).slice(1) and the loop over the blocks
ParseQuiz(content) ==
  LET questionBlocks == Tail(SplitEach(content, "Q:"))
  IN [i \in 1..Len(questionBlocks) |-> ParseBlock(questionBlocks[i])]

RECURSIVE SplitBlankLines(_)
\* text.split(/\n\n+/)
SplitBlankLines(s) ==
  LET hits == {p \in 1..(Len(s) - 1) : s[p] = "\n" /\ s[p + 1] = "\n"}
  IN IF hits = {} THEN <<s>>
     ELSE LET p == Min(hits)
              e == CHOOSE r \in (p + 1)..Len(s) :
                     /\ \A k \in p..r : s[k] = "\n"
                     /\ (r = Len(s) \/ s[r + 1] # "\n")
          IN <<SubSeq(s, 1, p - 1)>> \o SplitBlankLines(SubSeq(s, e + 1, Len(s)))

\* text.split(/\n\n+/).filter(chunk => chunk.trim().length > 0)
QuizChunks(text) == SelectSeq(SplitBlankLines(text), LAMBDA chunk : Trim(chunk) # <<>>)

\* What the calls generateQuestion(chunk) of the handler can return. The
\* order of the 4 options has no part in what the handler does next: two
\* shuffles, one keeping and one reversing the order, stand for all.
QuizCandidates(chunk) ==
  {Shuffled(generateQuestion_part_002(chunk, term, whatIs), pick) :
     term \in TermChoices(FirstSentenceKeyTerms(chunk)),
     whatIs \in BOOLEAN,
     pick \in {[i \in 1..4 |-> i], [i \in 1..4 |-> 5 - i]}}

\* questions.some(q => q.question === question.question)
SameStem(questions, question) ==
  \E i \in 1..Len(questions) : questions[i].question = question.question

\* no call of generateQuestion can return, now or later, a question whose
\* stem is new: the loop "while (questions.length < 5 && chunks.length > 0)"
\* goes on for ever without a change
LoopsForEver(chunkList, questions) ==
  \A i \in 1..Len(chunkList) : \A q \in QuizCandidates(chunkList[i]) :
    q.kind = "null" \/ (q.kind = "question" /\ SameStem(questions, q))

\* ------------------------------------------------------------ /summarize
\* The requests of /summarize: the text is known by its length and by
\* lastSentenceEnd, the last index of a terminator in its first
\* MAX_TEXT_LENGTH characters (-1 when there is none).
SummarizeRequests ==
  {r \in [textLen : {0, MAX_TEXT_LENGTH, SUMMARIZE_MAX_CHARS, SUMMARIZE_MAX_CHARS + 1},
          lastSentenceEnd : {-1, MAX_TEXT_LENGTH - 1},
          apiKey : BOOLEAN] :
     r.textLen = 0 => r.lastSentenceEnd = -1}

\* the length of textToSummarize
TextToSummarizeLen(r) ==
  IF r.textLen > MAX_TEXT_LENGTH
  THEN IF 10 * r.lastSentenceEnd > 8 * MAX_TEXT_LENGTH
       THEN r.lastSentenceEnd + 1
       ELSE MAX_TEXT_LENGTH
  ELSE r.textLen

\* ----------------------------------------------------- getSummaryLengths
maxModelLimit == 512
minModelLimit == 30

\* getSummaryLengths, from wordCount = text.split(/\s+/).length on
getSummaryLengths(wordCount) ==
  LET max0 == wordCount \div 3
      min0 == wordCount \div 4
      max_length == IF max0 > maxModelLimit THEN maxModelLimit ELSE max0
      min1 == IF min0 > max_length - 10 THEN max_length - 10 ELSE min0
      min_length == IF min1 < minModelLimit THEN minModelLimit ELSE min1
  IN [max_length |-> max_length, min_length |-> min_length]

\* ------------------------------------------------------ initial states
\* The state of each part at the start: about to run (run) on any of its
\* inputs, or not running.
GradeInit(run) ==
  /\ gPc = IF run THEN "start" ELSE "idle"
  /\ gVariant \in IF run THEN {"ai", "part_002"} ELSE {"ai"}
  /\ gBody \in IF run THEN GradeBodies ELSE {[isArray |-> FALSE, answers |-> <<>>]}
  /\ gRes = GradeError(0, "")

QuestionInit(run) ==
  /\ qnPc = IF run THEN "call" ELSE "idle"
  /\ qnVariant \in IF run THEN {"ai", "part_001", "part_002"} ELSE {"ai"}
  /\ qnConcept \in IF run THEN Concepts ELSE {<<>>}
  /\ qnOut = NullQuestion

SummarizeInit(run) ==
  /\ sumPc = IF run THEN "start" ELSE "idle"
  /\ sumReq \in IF run THEN SummarizeRequests
                ELSE {[textLen |-> 0, lastSentenceEnd |-> -1, apiKey |-> FALSE]}
  /\ sumCalls = <<>>
  /\ sumRes = NoResponse

QuizInit(run) ==
  /\ zPc = IF run THEN "start" ELSE "idle"
  /\ \/ run /\ zVariant = "ai" /\ zReq \in QuizRequestsAi
     \/ run /\ zVariant = "part_002" /\ zReq \in QuizRequestsOld
     \/ run /\ zVariant = "part_001" /\ zReq \in QuizRequests_part_001
     \/ ~run /\ zVariant = "ai"
             /\ zReq = [text |-> <<>>, textLen |-> 0, file |-> FALSE,
                        extractThrows |-> FALSE, fileTextLen |-> 0, apiKey |-> FALSE]
  /\ zChunks = <<>>
  /\ zCursor = 0
  /\ zQuestions = <<>>
  /\ zCalls = 0
  /\ zUnlinks = 0
  /\ zRes = QuizError(0, "")

RefineInit(run) ==
  /\ rfPc = IF run THEN "call" ELSE "idle"
  /\ rfQuestions \in IF run THEN QuestionLists ELSE {<<>>}
  /\ rfOut = <<>>
  /\ rfReplies = <<>>

LengthsInit(run) ==
  /\ lnPc = IF run THEN "call" ELSE "idle"
  /\ lnWords \in IF run THEN 1..MaxWordCount ELSE {1}
  /\ lnOut = [max_length |-> 0, min_length |-> 0]
  /\ lnParams = [max_length |-> 0, min_length |-> 0]

\* users.find(user => user.username === username): the first match, or
\* the empty sequence for undefined
findUserByUsername(userList, username) ==
  LET hits == {i \in 1..Len(userList) : userList[i].username = username}
  IN IF hits = {} THEN <<>> ELSE <<userList[Min(hits)]>>

\* the store is empty after the module load; the signup requests of the
\* process, each about to run (run) on any body
SignupInit(run) ==
  /\ users = <<>>
  /\ suPc = [r \in 1..MaxSignups |-> IF run THEN "start" ELSE "idle"]
  /\ suReq \in IF run
               THEN [1..MaxSignups -> [username : {"ann", "bob"}, password : {"pw", "qw"}]]
               ELSE {[r \in 1..MaxSignups |-> [username |-> "ann", password |-> "pw"]]}
  /\ suRes = [r \in 1..MaxSignups |-> 0]

\* the process has loaded the routes module: the TfIdf instance is empty
ConceptsInit ==
  /\ tfidf = <<>>
  /\ ekLog = <<>>

\* the parts after /summarize-document, with part running
LaterInit(part) ==
  /\ GradeInit(part = "grade")
  /\ QuestionInit(part = "question")
  /\ SummarizeInit(part = "summarize")
  /\ QuizInit(part = "quiz")
  /\ RefineInit(part = "refine")
  /\ LengthsInit(part = "lengths")
  /\ ConceptsInit
  /\ SignupInit(part = "signup")

LaterIdle == LaterInit("none")

\* --------------------------------------------- /summarize-document
ChunkLens == {MAX_CHUNK_SIZE, MAX_CHUNK_SIZE + 1}
ChunkLists == UNION {[1..n -> ChunkLens] : n \in 1..MaxChunks}
TextLens == {0, MAX_TOTAL_CHARS, MAX_TOTAL_CHARS + 1}
Requests ==
  {r \in [file : BOOLEAN, extractThrows : BOOLEAN, textLen : TextLens, blank : BOOLEAN] :
     /\ (~r.file => (~r.extractThrows /\ r.textLen = 0))
     /\ (r.extractThrows => r.textLen = 0)
     /\ (r.textLen = 0 => r.blank)}

\* chunk.length > MAX_CHUNK_SIZE with no pre-filter
ShouldSkip_Never(chunkLen) == FALSE

\* chunk.length > MAX_CHUNK_SIZE
ShouldSkip(chunkLen) == chunkLen > MAX_CHUNK_SIZE

\* the callback without its try/catch: the client's error rejects the promise
CallbackOutcome_NoCatch(r, index) ==
  IF r.kind = "returned"
  THEN [rejected |-> FALSE, value |-> r.text]
  ELSE [rejected |-> TRUE, value |-> <<>>]

\* the part of the callback that runs when the awaited client call settles
CallbackOutcome(r, index) ==
  IF r.kind = "returned"
  THEN [rejected |-> FALSE, value |-> r.text]
  ELSE IF Includes(r.message, "rate limit") \/ Includes(r.message, "429")
  THEN [rejected |-> FALSE, value |-> RateLimitMarker(index)]
  ELSE [rejected |-> FALSE, value |-> ErrorMarker(index)]

\* Promise.all filling its result in the order in which the promises settled
PromiseAllValues_CompletionOrder(sl, order) ==
  [i \in 1..Len(order) |-> sl[order[i]].value]

\* the array Promise.all resolves with: one value per promise, by index
PromiseAllValues(sl, order) ==
  [i \in 1..Len(order) |-> sl[i].value]

RECURSIVE JoinBlank(_)
\* Array.prototype.join('\n\n')
JoinBlank(ss) ==
  IF ss = <<>> THEN <<>>
  ELSE IF Len(ss) = 1 THEN ss[1]
  ELSE ss[1] \o <<"\n\n">> \o JoinBlank(Tail(ss))

IsUnmarked(summary) == ~StartsWith(summary, <<"[">>)
IsErrorMarked(summary) == StartsWith(summary, <<"[", "Error">>)

\* summaries.filter(...).join('\n\n')
CombinedSummary(sums) == JoinBlank(SelectSeq(sums, IsUnmarked))

Metadata(sums, nChunks, skipped) ==
  [totalChunks |-> nChunks,
   successfulSummaries |-> Len(SelectSeq(sums, IsUnmarked)),
   failedSummaries |-> Len(SelectSeq(sums, IsErrorMarked)),
   skippedChunks |-> skipped]

RECURSIVE SkippedIndices(_, _)
\* the indices pushed to skippedChunks by the callbacks, which run in index order
SkippedIndices(cs, from) ==
  IF from > Len(cs) THEN <<>>
  ELSE (IF ShouldSkip(cs[from]) THEN <<from>> ELSE <<>>) \o SkippedIndices(cs, from + 1)

HandlerIdle ==
  /\ hPc = "idle"
  /\ req = [file |-> FALSE, extractThrows |-> FALSE, textLen |-> 0, blank |-> TRUE]
  /\ chunks = <<>>
  /\ skippedChunks = <<>>
  /\ slot = <<>>
  /\ calls = <<>>
  /\ reply = <<>>
  /\ settled = <<>>
  /\ summaries = <<>>
  /\ unlinks = 0
  /\ res = NoResponse

ChunkerIdle ==
  /\ splitPc = "idle"
  /\ splitText = <<>>
  /\ splitMax = 1
  /\ splitOut = <<>>

Respond(r) == res' = r /\ hPc' = "done"

\* the handler from its entry to the chunk list (lines 313-351)
Validate ==
  /\ hPc = "start"
  /\ UNCHANGED chunkerVars
  /\ UNCHANGED laterVars
  /\ UNCHANGED <<req, skippedChunks, slot, calls, reply, settled, summaries>>
  /\ IF ~req.file
     THEN /\ Respond(ErrorResponse(400, "No document uploaded"))
          /\ UNCHANGED <<chunks, unlinks>>
     ELSE IF req.extractThrows
     THEN /\ Respond(ErrorResponse(500, "Failed to summarize document"))
          /\ UNCHANGED <<chunks, unlinks>>
     ELSE IF req.blank
     THEN /\ Respond(ErrorResponse(400, "No text content found in the document"))
          /\ UNCHANGED <<chunks, unlinks>>
     ELSE IF req.textLen > MAX_TOTAL_CHARS
     THEN /\ unlinks' = unlinks + 1
          /\ Respond(ErrorResponse(400, "The uploaded document is too large to process."))
          /\ UNCHANGED chunks
     ELSE /\ chunks' \in ChunkLists
          /\ UNCHANGED unlinks
          /\ IF Len(chunks') = 0
             THEN Respond(ErrorResponse(400, "No valid text content found in the document"))
             ELSE hPc' = "setup" /\ UNCHANGED res

\* the dynamic import or the client construction throws (lines 357-358)
ClientSetupFails ==
  /\ hPc = "setup"
  /\ Respond(ErrorResponse(500, "Failed to summarize document"))
  /\ UNCHANGED <<req, chunks, skippedChunks, slot, calls, reply, settled, summaries, unlinks>>
  /\ UNCHANGED chunkerVars
  /\ UNCHANGED laterVars

\* chunks.map runs every callback up to its first await (lines 361-379)
Dispatch ==
  /\ hPc = "setup"
  /\ hPc' = "await"
  /\ skippedChunks' = SkippedIndices(chunks, 1)
  /\ slot' = [i \in 1..Len(chunks) |->
                IF ShouldSkip(chunks[i])
                THEN [done |-> TRUE, value |-> SkippedMarker(i)]
                ELSE [done |-> FALSE, value |-> <<>>]]
  /\ calls' = [i \in 1..Len(chunks) |-> IF ShouldSkip(chunks[i]) THEN 0 ELSE 1]
  /\ reply' = [i \in 1..Len(chunks) |-> NoReply]
  /\ settled' = SkippedIndices(chunks, 1)
  /\ UNCHANGED <<req, chunks, summaries, unlinks, res>>
  /\ UNCHANGED chunkerVars
  /\ UNCHANGED laterVars

\* the client call of chunk i settles and its callback runs to its end
\* (lines 380-398)
Settle(i) ==
  /\ hPc = "await"
  /\ ~slot[i].done
  /\ \E r \in ClientReplies :
       LET out == CallbackOutcome(r, i)
       IN /\ reply' = [reply EXCEPT ![i] = r]
          /\ slot' = [slot EXCEPT ![i] = [done |-> TRUE, value |-> out.value]]
          /\ settled' = Append(settled, i)
          /\ IF out.rejected
             THEN Respond(ErrorResponse(500, "Failed to summarize document"))
             ELSE UNCHANGED <<hPc, res>>
  /\ UNCHANGED <<req, chunks, skippedChunks, calls, summaries, unlinks>>
  /\ UNCHANGED chunkerVars
  /\ UNCHANGED laterVars

\* Promise.all has resolved: clean up, combine and report (lines 400-426)
Combine ==
  /\ hPc = "await"
  /\ \A i \in 1..Len(chunks) : slot[i].done
  /\ summaries' = PromiseAllValues(slot, settled)
  /\ unlinks' = unlinks + 1
  /\ IF CombinedSummary(summaries') = <<>>
     THEN Respond(ErrorResponse(500, "Failed to generate any summaries"))
     ELSE Respond([status |-> 200, error |-> "",
                   summary |-> CombinedSummary(summaries'),
                   metadata |-> Metadata(summaries', Len(chunks), skippedChunks)])
  /\ UNCHANGED <<req, chunks, skippedChunks, slot, calls, reply, settled>>
  /\ UNCHANGED chunkerVars
  /\ UNCHANGED laterVars

InitSummarize ==
  /\ ChunkerIdle
  /\ LaterIdle
  /\ hPc = "start"
  /\ req \in Requests
  /\ chunks = <<>>
  /\ skippedChunks = <<>>
  /\ slot = <<>>
  /\ calls = <<>>
  /\ reply = <<>>
  /\ settled = <<>>
  /\ summaries = <<>>
  /\ unlinks = 0
  /\ res = NoResponse

NextSummarize ==
  \/ Validate
  \/ ClientSetupFails
  \/ Dispatch
  \/ \E i \in 1..Len(chunks) : Settle(i)
  \/ Combine

SpecSummarize == InitSummarize /\ [][NextSummarize]_vars

\* ----------------------------------------- the chunker as a state machine
InitChunker ==
  /\ HandlerIdle
  /\ LaterIdle
  /\ splitPc = "call"
  /\ splitText \in Texts
  /\ splitMax \in 1..MaxChunkArg
  /\ splitOut = <<>>

CallSplit ==
  /\ splitPc = "call"
  /\ splitOut' = splitTextIntoChunks(splitText, splitMax)
  /\ splitPc' = "done"
  /\ UNCHANGED <<splitText, splitMax>>
  /\ UNCHANGED handlerVars
  /\ UNCHANGED laterVars

NextChunker == CallSplit

SpecChunker == InitChunker /\ [][NextChunker]_vars

\* the start of one of the later parts, the two first ones not running
Start(part) == ChunkerIdle /\ HandlerIdle /\ LaterInit(part)

\* ----------------------------------- generateQuestion as a state machine
ReturnQuestion(out) ==
  /\ qnPc' = "returned"
  /\ qnOut' = out
  /\ UNCHANGED <<qnVariant, qnConcept>>
  /\ UNCHANGED <<chunkerVars, handlerVars, gradeVars, summarizeVars, quizVars, refineVars, restVars>>

\* a call of generateQuestion of ai.ts
CallGenerateQuestion ==
  /\ qnPc = "call" /\ qnVariant = "ai"
  /\ \E pick \in Picks(Len(generateQuestion(qnConcept).options)) :
       ReturnQuestion(Shuffled(generateQuestion(qnConcept), pick))

\* a call of generateQuestion of part_001
CallGenerateQuestion_part_001 ==
  /\ qnPc = "call" /\ qnVariant = "part_001"
  /\ \E term \in TermChoices(KeyTermsShort(tokenize(qnConcept))) :
       \E pick \in Picks(Len(generateQuestion_part_001(qnConcept, term).options)) :
         ReturnQuestion(Shuffled(generateQuestion_part_001(qnConcept, term), pick))

\* a call of generateQuestion of part_002
CallGenerateQuestion_part_002 ==
  /\ qnPc = "call" /\ qnVariant = "part_002"
  /\ \E term \in TermChoices(FirstSentenceKeyTerms(qnConcept)) :
       \E whatIs \in BOOLEAN :
         \E pick \in Picks(Len(generateQuestion_part_002(qnConcept, term, whatIs).options)) :
           ReturnQuestion(Shuffled(generateQuestion_part_002(qnConcept, term, whatIs), pick))

NextQuestion ==
  \/ CallGenerateQuestion
  \/ CallGenerateQuestion_part_001
  \/ CallGenerateQuestion_part_002

SpecQuestion == Start("question") /\ [][NextQuestion]_vars

\* ------------------------------------- /verify-answers as a state machine
\* router.post('/verify-answers') of ai.ts and of part_002
VerifyAnswers ==
  /\ gPc = "start"
  /\ gPc' = "done"
  /\ gRes' =
       IF ~gBody.isArray
       THEN GradeError(400, "Invalid answers format")
       ELSE IF gVariant = "ai"
       THEN GradeReport([i \in 1..Len(gBody.answers) |-> GradeAnswer(gBody.answers[i])])
       ELSE IF ThrowsOld(gBody.answers)
       THEN GradeError(500, "Failed to verify answers")
       ELSE GradeReport([i \in 1..Len(gBody.answers) |-> GradeAnswerOld(gBody.answers[i])])
  /\ UNCHANGED <<gVariant, gBody>>
  /\ UNCHANGED <<chunkerVars, handlerVars, questionVars, summarizeVars, quizVars, refineVars, restVars>>

SpecGrade == Start("grade") /\ [][VerifyAnswers]_vars

\* ------------------------------------------- /summarize as a state machine
\* router.post('/summarize') up to the call of hf.summarization
SummarizeValidate ==
  /\ sumPc = "start"
  /\ UNCHANGED sumReq
  /\ UNCHANGED <<chunkerVars, handlerVars, gradeVars, questionVars, quizVars, refineVars, restVars>>
  /\ IF sumReq.textLen = 0
     THEN /\ sumRes' = ErrorResponse(400, "Text is required")
          /\ sumPc' = "done" /\ UNCHANGED sumCalls
     ELSE IF sumReq.textLen > SUMMARIZE_MAX_CHARS
     THEN /\ sumRes' = ErrorResponse(400, "Text is too long. Please ensure it is under 8000 characters.")
          /\ sumPc' = "done" /\ UNCHANGED sumCalls
     ELSE IF ~sumReq.apiKey
     THEN /\ sumRes' = ErrorResponse(500, "API configuration error")
          /\ sumPc' = "done" /\ UNCHANGED sumCalls
     ELSE /\ sumCalls' = Append(sumCalls, TextToSummarizeLen(sumReq))
          /\ sumPc' = "await" /\ UNCHANGED sumRes

\* hf.summarization settles and the handler responds; a summary that ends
\* without punctuation gets a full stop
SummarizeSettle ==
  /\ sumPc = "await"
  /\ UNCHANGED sumReq
  /\ UNCHANGED <<chunkerVars, handlerVars, gradeVars, questionVars, quizVars, refineVars, restVars>>
  /\ UNCHANGED sumCalls
  /\ sumPc' = "done"
  /\ \E r \in ClientReplies :
       sumRes' =
         IF r.kind = "raised" \/ r.text = <<>>
         THEN ErrorResponse(500, "Failed to generate summary")
         ELSE [status |-> 200, error |-> "",
               summary |-> IF r.text[Len(r.text)] \in Terminators THEN r.text
                           ELSE r.text \o <<".">>,
               metadata |-> NoMetadata]

\* --------------------------------------- /generate-quiz as a state machine
RespondQuiz(r) == zRes' = r /\ zPc' = "done"

\* router.post('/generate-quiz') of ai.ts up to the call of axios.post
GenerateQuizValidate ==
  /\ zPc = "start" /\ zVariant = "ai"
  /\ UNCHANGED <<zVariant, zReq>>
  /\ UNCHANGED <<chunkerVars, handlerVars, gradeVars, questionVars, summarizeVars, refineVars, restVars>>
  /\ UNCHANGED <<zChunks, zCursor, zQuestions>>
  /\ LET extracts == zReq.textLen = 0 /\ zReq.file
         textLen == IF extracts THEN zReq.fileTextLen ELSE zReq.textLen
     IN IF extracts /\ zReq.extractThrows
        THEN /\ RespondQuiz(QuizError(500, "Failed to generate quiz"))
             /\ UNCHANGED <<zCalls, zUnlinks>>
        ELSE /\ zUnlinks' = IF extracts THEN zUnlinks + 1 ELSE zUnlinks
             /\ IF textLen = 0
                THEN RespondQuiz(QuizError(400, "Text is required")) /\ UNCHANGED zCalls
                ELSE IF QuizTooLong(textLen)
                THEN /\ RespondQuiz(QuizError(400, "Text is too long. Please ensure it is under 4000 characters"))
                     /\ UNCHANGED zCalls
                ELSE IF ~zReq.apiKey
                THEN RespondQuiz(QuizError(500, "API key not configured")) /\ UNCHANGED zCalls
                ELSE /\ zCalls' = zCalls + 1
                     /\ zPc' = "await" /\ UNCHANGED zRes

\* axios.post settles; the content is parsed and the handler responds
GenerateQuizParse ==
  /\ zPc = "await" /\ zVariant = "ai"
  /\ UNCHANGED <<zVariant, zReq>>
  /\ UNCHANGED <<chunkerVars, handlerVars, gradeVars, questionVars, summarizeVars, refineVars, restVars>>
  /\ UNCHANGED <<zChunks, zCursor, zCalls, zUnlinks>>
  /\ \E r \in GroqReplies :
       IF r.kind = "raised"
       THEN RespondQuiz(QuizError(500, "Failed to generate quiz")) /\ UNCHANGED zQuestions
       ELSE /\ zQuestions' = ParseQuiz(r.content)
            /\ RespondQuiz(QuizReport(zQuestions'))

\* router.post('/generate-quiz') of part_002 up to the first loop
GenerateQuizSplit ==
  /\ zPc = "start" /\ zVariant = "part_002"
  /\ UNCHANGED <<zVariant, zReq>>
  /\ UNCHANGED <<chunkerVars, handlerVars, gradeVars, questionVars, summarizeVars, refineVars, restVars>>
  /\ UNCHANGED <<zQuestions, zCalls, zUnlinks>>
  /\ IF zReq.text = <<>>
     THEN RespondQuiz(QuizError(400, "Text is required")) /\ UNCHANGED <<zChunks, zCursor>>
     ELSE /\ zChunks' = QuizChunks(zReq.text)
          /\ zCursor' = 1
          /\ zPc' = IF zChunks' = <<>> THEN "respond" ELSE "first"
          /\ UNCHANGED zRes

\* one turn of "for (const chunk of chunks)" of the first loop
GenerateQuizFirstPass ==
  /\ zPc = "first"
  /\ UNCHANGED <<zVariant, zReq>>
  /\ UNCHANGED <<chunkerVars, handlerVars, gradeVars, questionVars, summarizeVars, refineVars, restVars>>
  /\ UNCHANGED <<zChunks, zCalls, zUnlinks, zRes>>
  /\ \E question \in QuizCandidates(zChunks[zCursor]) :
       IF question.kind = "hang"
       THEN zPc' = "hang" /\ UNCHANGED <<zQuestions, zCursor>>
       ELSE /\ zQuestions' = IF question.kind = "question"
                             THEN Append(zQuestions, question) ELSE zQuestions
            /\ IF Len(zQuestions') >= QUIZ_SIZE \/ zCursor = Len(zChunks)
               THEN zPc' = "retry" /\ zCursor' = 1
               ELSE zPc' = "first" /\ zCursor' = zCursor + 1

\* "while (questions.length < 5 && chunks.length > 0)": its test at the
\* start of a pass, and one turn of its for loop
GenerateQuizRetry ==
  /\ zPc = "retry"
  /\ UNCHANGED <<zVariant, zReq>>
  /\ UNCHANGED <<chunkerVars, handlerVars, gradeVars, questionVars, summarizeVars, refineVars, restVars>>
  /\ UNCHANGED <<zChunks, zCalls, zUnlinks, zRes>>
  /\ IF zCursor = 1 /\ Len(zQuestions) >= QUIZ_SIZE
     THEN zPc' = "respond" /\ UNCHANGED <<zQuestions, zCursor>>
     ELSE IF zCursor = 1 /\ LoopsForEver(zChunks, zQuestions)
     THEN zPc' = "hang" /\ UNCHANGED <<zQuestions, zCursor>>
     ELSE \E question \in QuizCandidates(zChunks[zCursor]) :
            IF question.kind = "hang"
            THEN zPc' = "hang" /\ UNCHANGED <<zQuestions, zCursor>>
            ELSE /\ zQuestions' = IF question.kind = "question" /\ ~SameStem(zQuestions, question)
                                  THEN Append(zQuestions, question) ELSE zQuestions
                 /\ zPc' = "retry"
                 /\ zCursor' = IF Len(zQuestions') >= QUIZ_SIZE \/ zCursor = Len(zChunks)
                               THEN 1 ELSE zCursor + 1

\* the rest of the handler of part_002: the empty check, slice(0, 5),
\* refineQuestions with every question given the same reply, and the response
GenerateQuizRespond ==
  /\ zPc = "respond"
  /\ UNCHANGED <<zVariant, zReq>>
  /\ UNCHANGED <<chunkerVars, handlerVars, gradeVars, questionVars, summarizeVars, refineVars, restVars>>
  /\ UNCHANGED <<zChunks, zCursor, zQuestions, zUnlinks>>
  /\ IF Len(zQuestions) = 0
     THEN /\ RespondQuiz(QuizError(400, "Could not generate questions from the provided text"))
          /\ UNCHANGED zCalls
     ELSE LET sliced == SubSeq(zQuestions, 1, Min({QUIZ_SIZE, Len(zQuestions)}))
          IN \E r \in RefineReplies : \E setupThrows \in BOOLEAN :
               /\ zCalls' = IF setupThrows THEN zCalls ELSE zCalls + Len(sliced)
               /\ RespondQuiz(QuizReport(
                    refineQuestions(sliced, [i \in 1..Len(sliced) |-> r], setupThrows)))

\* What generateQuestion(concept) of part_001 can return to the handler,
\* with the two shuffles that stand for all.
QuizCandidates_part_001(concept) ==
  {Shuffled(generateQuestion_part_001(concept, term), pick) :
     term \in TermChoices(KeyTermsShort(tokenize(concept))),
     pick \in {[i \in 1..4 |-> i], [i \in 1..4 |-> 5 - i]}}

\* router.post('/generate-quiz') of part_001, which runs without a pause
GenerateQuiz_part_001 ==
  /\ zPc = "start" /\ zVariant = "part_001"
  /\ UNCHANGED <<zVariant, zReq, zChunks, zCursor, zCalls, zUnlinks>>
  /\ UNCHANGED <<chunkerVars, handlerVars, gradeVars, questionVars, summarizeVars, refineVars>>
  /\ UNCHANGED <<lengthVars, ekLog, signupVars>>
  /\ IF zReq.text = <<>>
     THEN RespondQuiz(QuizError(400, "Text is required")) /\ UNCHANGED <<zQuestions, tfidf>>
     ELSE LET out == extractKeyConcepts(zReq.text, tfidf)
              concepts == out.concepts
              Candidates == UNION {QuizCandidates_part_001(concepts[i]) : i \in 1..Len(concepts)}
          IN /\ tfidf' = out.documents
             /\ \E mapped \in [1..Len(concepts) -> Candidates] :
                  /\ \A i \in 1..Len(concepts) : mapped[i] \in QuizCandidates_part_001(concepts[i])
                  /\ zQuestions' = SliceTo(SelectSeq(mapped, LAMBDA q : q.kind # "null"), QUIZ_SIZE)
                  /\ IF Len(zQuestions') = 0
                     THEN RespondQuiz(QuizError(400, "Could not generate questions from the provided text"))
                     ELSE RespondQuiz(QuizReport(zQuestions'))

NextQuiz ==
  \/ GenerateQuiz_part_001
  \/ GenerateQuizValidate
  \/ GenerateQuizParse
  \/ GenerateQuizSplit
  \/ GenerateQuizFirstPass
  \/ GenerateQuizRetry
  \/ GenerateQuizRespond

SpecQuiz == Start("quiz") /\ [][NextQuiz]_vars

\* ------------------------------------- refineQuestions as a state machine
\* a call of refineQuestions
CallRefineQuestions ==
  /\ rfPc = "call"
  /\ rfPc' = "returned"
  /\ \E replies \in [1..Len(rfQuestions) -> RefineReplies] : \E setupThrows \in BOOLEAN :
       /\ rfOut' = refineQuestions(rfQuestions, replies, setupThrows)
       /\ rfReplies' = IF setupThrows THEN <<>> ELSE replies
  /\ UNCHANGED rfQuestions
  /\ UNCHANGED <<chunkerVars, handlerVars, gradeVars, questionVars, summarizeVars, quizVars, restVars>>

SpecRefine == Start("refine") /\ [][CallRefineQuestions]_vars

\* ------------------------------- the three endpoints with a length ceiling
NextCeilings ==
  \/ Validate
  \/ ClientSetupFails
  \/ Dispatch
  \/ \E i \in 1..Len(chunks) : Settle(i)
  \/ Combine
  \/ SummarizeValidate
  \/ SummarizeSettle
  \/ GenerateQuizValidate
  \/ GenerateQuizParse

SpecCeilings ==
  /\ InitSummarize \/ Start("summarize") \/ (Start("quiz") /\ zVariant = "ai")
  /\ [][NextCeilings]_vars

\* ------------------------------- the client parameters of one chunk
\* the fan-out callback computes the hints of its chunk and builds the
\* parameters of hf.summarization (ai.ts:369-376)
CallGetSummaryLengths ==
  /\ lnPc = "call"
  /\ lnPc' = "called"
  /\ lnOut' = getSummaryLengths(lnWords)
  /\ lnParams' = [max_length |-> Min({lnOut'.max_length, 150}),
                  min_length |-> Min({lnOut'.min_length, 50})]
  /\ UNCHANGED lnWords
  /\ UNCHANGED <<earlierVars, conceptVars, signupVars>>

SpecLengths == Start("lengths") /\ [][CallGetSummaryLengths]_vars

\* --------------------------- extractKeyConcepts over the life of a process
\* one call of extractKeyConcepts, on any text
CallExtractKeyConcepts ==
  /\ Len(ekLog) < MaxCalls
  /\ \E text \in ConceptTexts :
       LET out == extractKeyConcepts(text, tfidf)
       IN /\ tfidf' = out.documents
          /\ ekLog' = Append(ekLog, [text |-> text, concepts |-> out.concepts])
  /\ UNCHANGED <<earlierVars, lengthVars, signupVars>>

SpecConcepts == Start("concepts") /\ [][CallExtractKeyConcepts]_vars

\* ------------------------------------------------------------- signup
\* signup of request r from its entry to "await bcrypt.hash(password, 10)"
\* (authController.ts:8-18)
SignupCheck(r) ==
  /\ suPc[r] = "start"
  /\ IF findUserByUsername(users, suReq[r].username) # <<>>
     THEN /\ suRes' = [suRes EXCEPT ![r] = 400]
          /\ suPc' = [suPc EXCEPT ![r] = "done"]
     ELSE /\ suPc' = [suPc EXCEPT ![r] = "hashing"]
          /\ UNCHANGED suRes
  /\ UNCHANGED <<users, suReq>>
  /\ UNCHANGED <<earlierVars, lengthVars, conceptVars>>

\* the hash of request r is ready: addUser, generateToken and the 201
\* (authController.ts:18-26)
SignupAdd(r) ==
  /\ suPc[r] = "hashing"
  /\ users' = Append(users, [username |-> suReq[r].username,
                             password |-> <<"bcrypt", 10, suReq[r].password>>])
  /\ suRes' = [suRes EXCEPT ![r] = 201]
  /\ suPc' = [suPc EXCEPT ![r] = "done"]
  /\ UNCHANGED suReq
  /\ UNCHANGED <<earlierVars, lengthVars, conceptVars>>

NextSignup == \E r \in 1..MaxSignups : SignupCheck(r) \/ SignupAdd(r)

SpecSignup == Start("signup") /\ [][NextSignup]_vars

\* ------------------------------------------- properties of the fan-out
\* the fan-out of this request has been dispatched
FannedOut == hPc \in {"await", "done"} /\ slot # <<>>

\* the handler has passed Promise.all and sent its report
Reported == hPc = "done" /\ slot # <<>> /\ \A i \in 1..Len(slot) : slot[i].done

Raised(i) == reply[i].kind = "raised"
Returned(i) == reply[i].kind = "returned"

\* position of index i in the settlement order, 0 when it has not settled
SettledAt(i) ==
  IF \E k \in 1..Len(settled) : settled[k] = i
  THEN CHOOSE k \in 1..Len(settled) : settled[k] = i
  ELSE 0

\* C1: whatever subset of the client calls raises an error, the fan-out
\* yields one outcome per segment: the returned summary for a call that
\* returned, a failure marker for a call that raised; an error never aborts
\* the request and never changes the outcome recorded for another segment.
C1_FanOutIsolation ==
  FannedOut =>
    /\ DOMAIN slot = 1..Len(chunks)
    /\ res.error # "Failed to summarize document"
    /\ \A i \in 1..Len(chunks) :
         /\ Raised(i) =>
              slot[i].done /\ slot[i].value \in {ErrorMarker(i), RateLimitMarker(i)}
         /\ Returned(i) => slot[i].done /\ slot[i].value = reply[i].text
    /\ (hPc = "done" =>
          /\ Len(summaries) = Len(chunks)
          /\ \A i \in 1..Len(chunks) : slot[i].done /\ summaries[i] = slot[i].value)

\* C1 witness: three segments, the call of the first raised before the calls
\* of the others had settled, and those returned their summaries afterwards.
C1_Witness ==
  /\ Reported
  /\ Len(chunks) = 3
  /\ Raised(1) /\ Returned(2) /\ Returned(3)
  /\ SettledAt(1) < SettledAt(2) /\ SettledAt(1) < SettledAt(3)
  /\ summaries[2] = reply[2].text /\ summaries[3] = reply[3].text

RECURSIVE UnmarkedReturned(_)
\* the texts the client returned that carry no leading '[', by ascending index
UnmarkedReturned(from) ==
  IF from > Len(reply) THEN <<>>
  ELSE (IF Returned(from) /\ (reply[from].text = <<>> \/ reply[from].text[1] # "[")
        THEN <<reply[from].text>> ELSE <<>>)
       \o UnmarkedReturned(from + 1)

\* C2: in every success report the combined summary is the successful
\* summaries (those not marked with a leading '[') joined by a blank line in
\* ascending segment index, whatever the order in which the calls completed.
C2_IndexOrderAssembly ==
  (hPc = "done" /\ res.status = 200) => res.summary = JoinBlank(UnmarkedReturned(1))

\* C2 witness: a success report of two different summaries whose calls
\* completed in the opposite of their index order.
C2_Witness ==
  /\ hPc = "done" /\ res.status = 200
  /\ \E i, j \in 1..Len(chunks) :
       /\ i < j
       /\ Returned(i) /\ Returned(j)
       /\ reply[i].text = <<"u">> /\ reply[j].text = <<"v">>
       /\ SettledAt(j) < SettledAt(i)

\* the client returned a usable (non-empty) summary for segment i
Summarized(i) == Returned(i) /\ reply[i].text # <<>>

\* C3: the report is the hard failure when no segment is Summarized, a
\* success with a non-empty combined summary when at least one is, and a
\* success never carries an empty summary.
C3_HardFailureOrNonEmpty ==
  Reported =>
    /\ (~(\E i \in 1..Len(chunks) : Summarized(i)) =>
          res = ErrorResponse(500, "Failed to generate any summaries"))
    /\ ((\E i \in 1..Len(chunks) : Summarized(i)) =>
          res.status = 200 /\ res.summary # <<>>)
    /\ (res.status = 200 => res.summary # <<>>)

\* C4: in every success report successfulSummaries + failedSummaries + the
\* number of skippedChunks equals totalChunks.
C4_EverySegmentCounted ==
  (hPc = "done" /\ res.status = 200) =>
    res.metadata.successfulSummaries + res.metadata.failedSummaries
      + Len(res.metadata.skippedChunks) = res.metadata.totalChunks

\* C5: the client is called exactly once for a segment within the ceiling
\* and never for one above it, which is marked Skipped; every segment index
\* settles exactly once.
C5_OneCallPerEligibleSegment ==
  FannedOut =>
    /\ \A i \in 1..Len(chunks) :
         IF chunks[i] <= MAX_CHUNK_SIZE
         THEN calls[i] = 1 /\ ~Includes(skippedChunks, i)
         ELSE /\ calls[i] = 0
              /\ Includes(skippedChunks, i)
              /\ slot[i] = [done |-> TRUE, value |-> SkippedMarker(i)]
    /\ \A i \in 1..Len(chunks) :
         Cardinality({k \in 1..Len(settled) : settled[k] = i}) = (IF slot[i].done THEN 1 ELSE 0)

\* C5 witness: a report over a segment above the ceiling, a segment whose
\* single call raised and a segment whose single call returned.
C5_Witness ==
  /\ Reported
  /\ \E i, j, k \in 1..Len(chunks) :
       /\ chunks[i] > MAX_CHUNK_SIZE /\ calls[i] = 0
       /\ chunks[j] <= MAX_CHUNK_SIZE /\ Raised(j) /\ calls[j] = 1
       /\ chunks[k] <= MAX_CHUNK_SIZE /\ Returned(k) /\ calls[k] = 1

\* the client call of segment i completed with an empty summary text
Unusable(i) == Returned(i) /\ reply[i].text = <<>>

\* the combined summary holds a paragraph without text
HasEmptyParagraph(summary) ==
  /\ summary # <<>>
  /\ \/ summary[1] = "\n\n"
     \/ summary[Len(summary)] = "\n\n"
     \/ \E k \in 1..(Len(summary) - 1) : summary[k] = "\n\n" /\ summary[k + 1] = "\n\n"

\* C21: when the client call of one segment completes with an empty summary
\* while another segment is summarized, the request is answered with a
\* success report in which the empty result is not counted as successful
\* and adds no empty paragraph to the combined summary.
C21_UnusableIsOnlyThatSegment ==
  (/\ Reported
   /\ \E i \in 1..Len(chunks) : Unusable(i)
   /\ \E j \in 1..Len(chunks) : Summarized(j) /\ IsUnmarked(reply[j].text))
    => /\ res.status = 200
       /\ res.metadata.successfulSummaries
            <= Cardinality({j \in 1..Len(chunks) : Summarized(j)})
       /\ ~HasEmptyParagraph(res.summary)

\* C27: every non-empty summary the client returned for a segment is a
\* paragraph of the combined summary of a success report and is counted in
\* successfulSummaries, whatever its first character is.
C27_ReturnedSummariesKept ==
  Reported =>
    \A i \in 1..Len(chunks) :
      Summarized(i) =>
        /\ res.status = 200
        /\ Includes(SplitEach(res.summary, "\n\n"), reply[i].text)
        /\ res.metadata.successfulSummaries
             >= Cardinality({j \in 1..Len(chunks) : Summarized(j)})

\* C29: when the handler has sent its response to a request that carried
\* an upload, the uploaded file has been deleted, exactly once.
C29_UploadDeletedOnce ==
  (hPc = "done" /\ req.file) => unlinks = 1

\* --------------------------------------- properties of /generate-quiz
QuizReported == zPc = "done" /\ zRes.status = 200

\* C13: every question of a quiz response has exactly 4 options and its
\* correct answer is one of them, whatever the language model returned.
C13_FourOptionsWithCorrect ==
  QuizReported =>
    \A i \in 1..Len(zRes.questions) :
      /\ Len(zRes.questions[i].options) = 4
      /\ Includes(zRes.questions[i].options, zRes.questions[i].correct)

\* C14: /generate-quiz comes to an end, and a quiz response holds the
\* questions that were produced, at most 5 of them.
C14_TerminatesWithAtMostFive ==
  /\ zPc # "hang"
  /\ QuizReported => Len(zRes.questions) = Min({QUIZ_SIZE, Len(zQuestions)})

\* no chunk of the text can give a question
NothingUsable ==
  \A i \in 1..Len(zChunks) : \A q \in QuizCandidates(zChunks[i]) : q.kind = "null"

\* C15: when no question could be produced the request is answered with an
\* error: there is no quiz response with an empty list, and the handler does
\* not stay without an answer.
C15_NoQuestionsIsAnError ==
  /\ QuizReported => zRes.questions # <<>>
  /\ ~(zPc = "hang" /\ zQuestions = <<>> /\ NothingUsable)

\* ------------------------------------- properties of refineQuestions
\* C16: refineQuestions returns one question for every question it was
\* given, each with the correct answer it had before, whatever the language
\* model returned.
C16_RefineKeepsCorrect ==
  rfPc = "returned" =>
    /\ Len(rfOut) = Len(rfQuestions)
    /\ \A i \in 1..Len(rfQuestions) : rfOut[i].correct = rfQuestions[i].correct

\* C16 witness: a question was replaced by the model's version, whose own
\* correct answer is a different one, and kept its correct answer.
C16_Witness ==
  /\ rfPc = "returned"
  /\ \E i \in 1..Len(rfQuestions) :
       /\ rfOut[i].question # rfQuestions[i].question
       /\ rfOut[i].options # rfQuestions[i].options
       /\ ~Includes(rfOut[i].options, rfOut[i].correct)
       /\ rfOut[i].correct = rfQuestions[i].correct

\* the generated text is not JSON, or it is JSON without a question or
\* without a list of 4 options
Unparsable(r) ==
  \/ r.kind = "notJson"
  \/ r.kind \in {"null", "object"} /\ (r.question = <<>> \/ Len(r.options) # 4)

\* C25: a question whose generated text cannot be parsed into a question
\* with 4 options is returned as it was before the refinement: same stem,
\* same options, same correct answer.
C25_UnparsableKeepsQuestion ==
  rfPc = "returned" =>
    \A i \in 1..Len(rfReplies) : Unparsable(rfReplies[i]) => rfOut[i] = rfQuestions[i]

\* ------------------------------------- properties of the length ceilings
\* the text /generate-quiz of ai.ts works on: the posted one, or the one
\* extracted from the upload when none was posted
QuizTextLen == IF zReq.textLen = 0 /\ zReq.file THEN zReq.fileTextLen ELSE zReq.textLen

\* C20: /summarize-document, /summarize and /generate-quiz answer a text
\* that is empty or longer than 40000, 8000 and 4000 characters with status
\* 400 and make no call to the summarization or language model.
C20_CeilingsBeforeCalls ==
  /\ (hPc # "idle" /\ req.file /\ ~req.extractThrows
        /\ (req.blank \/ req.textLen > 40000)) =>
       /\ calls = <<>>
       /\ hPc = "done" => res.status = 400
  /\ (sumPc # "idle" /\ (sumReq.textLen = 0 \/ sumReq.textLen > 8000)) =>
       /\ sumCalls = <<>>
       /\ sumPc = "done" => sumRes.status = 400
  /\ (zPc # "idle" /\ zVariant = "ai" /\ ~(zReq.textLen = 0 /\ zReq.extractThrows)
        /\ (QuizTextLen = 0 \/ QuizTextLen > 4000)) =>
       /\ zCalls = 0
       /\ zPc = "done" => zRes.status = 400

\* C20 witness: /generate-quiz has answered 400, without a call, a text of
\* 4001 characters extracted from the upload.
C20_Witness ==
  /\ zPc = "done" /\ zVariant = "ai"
  /\ zReq.textLen = 0 /\ zReq.file /\ zReq.fileTextLen = 4001
  /\ zRes.status = 400 /\ zCalls = 0

\* ------------------------------------- properties of generateQuestion
Asked(v) == qnPc = "returned" /\ qnVariant = v /\ qnOut.kind = "question"

\* C11: generateQuestion of ai.ts and of part_002 returns the correct answer
\* among the options.
C11_CorrectAmongOptions ==
  (Asked("ai") \/ Asked("part_002")) => Includes(qnOut.options, qnOut.correct)

\* C12: generateQuestion of ai.ts and of part_001 returns exactly 4 options,
\* no two of them the same string.
C12_FourDistinctOptions ==
  (Asked("ai") \/ Asked("part_001")) =>
    /\ Len(qnOut.options) = 4
    /\ \A i, j \in 1..Len(qnOut.options) : i # j => qnOut.options[i] # qnOut.options[j]

\* ---------------------------------------- properties of /verify-answers
Graded == gPc = "done" /\ gBody.isArray

\* the value was submitted: it is neither absent nor the empty string
Present(v) == v.present /\ v.str # <<>>

\* C17: every submitted answer is graded: isCorrect holds exactly when both
\* values are present and equal ignoring letter case, an answer with a missing
\* value is incorrect with the explanatory feedback, and the request is
\* answered with a grade summary, never with an error.
C17_CaseInsensitiveGrading ==
  Graded =>
    /\ gRes.status = 200
    /\ Len(gRes.results) = Len(gBody.answers)
    /\ \A i \in 1..Len(gBody.answers) :
         LET a == gBody.answers[i]
             bothPresent == Present(a.selectedAnswer) /\ Present(a.correctAnswer)
         IN /\ gRes.results[i].isCorrect <=>
                 (bothPresent /\ ToLower(a.selectedAnswer.str) = ToLower(a.correctAnswer.str))
            /\ ~bothPresent =>
                 gRes.results[i].feedback = "No answer provided or correct answer missing."

\* C18: an empty answers array gets no grade summary.
C18_EmptyListRejected ==
  (Graded /\ gBody.answers = <<>>) => gRes.status # 200

\* percentage >= n for the ratio; false for the undefined ratio 0/0
RatioAtLeast(p, n) == p.den # 0 /\ p.num >= n * p.den

\* C19: a grade summary has score = number of correct results, total = number
\* of answers, percentage = 100 * score / total, and its feedback band is
\* excellent from 90, good from 70, adequate from 50, needs-improvement
\* otherwise.
C19_ScoreAndBands ==
  (Graded /\ gRes.status = 200) =>
    LET sm == gRes.summary
        nCorrect == Cardinality({i \in 1..Len(gRes.results) : gRes.results[i].isCorrect})
    IN /\ sm.score = nCorrect
       /\ sm.total = Len(gBody.answers)
       /\ sm.percentage = [num |-> 100 * nCorrect, den |-> Len(gBody.answers)]
       /\ sm.feedback =
            (IF RatioAtLeast(sm.percentage, 90) THEN "Excellent"
             ELSE IF RatioAtLeast(sm.percentage, 70) THEN "Good job"
             ELSE IF RatioAtLeast(sm.percentage, 50) THEN "Not bad"
             ELSE "Keep studying")

\* C19 witness: ten answers of which nine are right, graded at exactly 90.
C19_Witness ==
  /\ Graded /\ gRes.status = 200
  /\ gRes.summary.total = 10 /\ gRes.summary.score = 9
  /\ gRes.summary.feedback = "Excellent"

\* --------------------------------------------- properties of the chunker
NonWs(s) == SelectSeq(s, LAMBDA c : ~IsSpace(c))

RECURSIVE Flatten(_)
Flatten(ss) == IF ss = <<>> THEN <<>> ELSE Head(ss) \o Flatten(Tail(ss))

Count(s, c) == Cardinality({i \in 1..Len(s) : s[i] = c})

\* the whitespace-free words of a text
WordsOf(s) == {w \in {SplitWords(s)[i] : i \in 1..Len(SplitWords(s))} : w # <<>>}

IsPieceOf(c, w) ==
  \E k \in 1..(Len(w) + 1) : k + Len(c) - 1 <= Len(w) /\ SubSeq(w, k, k + Len(c) - 1) = c

\* c holds a piece of a whitespace-free word of the text that is longer than
\* the limit: one of the words of c is cut out of such a word
HoldsPieceOfLongWord(c, text, maxChunkSize) ==
  \E t \in WordsOf(c) :
    \E w \in WordsOf(text) : Len(w) > maxChunkSize /\ IsPieceOf(t, w)

IsBlank(s) == \A i \in 1..Len(s) : IsSpace(s[i])

\* C6: every returned segment has length <= maxChunkSize, except a segment
\* that holds a piece of a whitespace-free word longer than maxChunkSize.
C6_SegmentWithinLimit ==
  splitPc = "done" =>
    \A i \in 1..Len(splitOut) :
      \/ Len(splitOut[i]) <= splitMax
      \/ HoldsPieceOfLongWord(splitOut[i], splitText, splitMax)

\* C7: reading the segments from first to last yields the non-whitespace
\* characters of the input in the order in which they occur in the input.
C7_DocumentOrder ==
  splitPc = "done" => NonWs(Flatten(splitOut)) = NonWs(splitText)

\* C8: the segments together contain every non-whitespace character of the
\* input exactly once: per character, as many occurrences as in the input.
C8_NoLossNoDuplication ==
  splitPc = "done" =>
    \A c \in Alphabet \ Whitespace :
      Count(Flatten(splitOut), c) = Count(splitText, c)

\* C8 witness: a text with outer whitespace and a word longer than the limit
\* was split into three or more segments (hard split, flush and trim acted).
C8_Witness ==
  /\ splitPc = "done"
  /\ Len(splitOut) >= 3
  /\ Trim(splitText) # splitText
  /\ \E w \in WordsOf(splitText) : Len(w) > splitMax
  /\ \E w \in WordsOf(splitText) : Len(w) <= splitMax

\* C22: every whitespace-free word of the input whose length is at most
\* maxChunkSize appears whole, as a word, inside one of the segments: only a
\* word longer than maxChunkSize is cut.
C22_ShortWordsWhole ==
  splitPc = "done" =>
    \A w \in WordsOf(splitText) :
      Len(w) <= splitMax => \E i \in 1..Len(splitOut) : w \in WordsOf(splitOut[i])

\* C23: the hints computed by getSummaryLengths and the parameters handed
\* to the client satisfy 30 <= min_length <= max_length <= 512, whatever the
\* word count of the segment.
C23_HintsClampedAndOrdered ==
  lnPc = "called" =>
    /\ minModelLimit <= lnOut.min_length
    /\ lnOut.min_length <= lnOut.max_length
    /\ lnOut.max_length <= maxModelLimit
    /\ minModelLimit <= lnParams.min_length
    /\ lnParams.min_length <= lnParams.max_length
    /\ lnParams.max_length <= maxModelLimit

\* C26: two calls of extractKeyConcepts on the same text return the same
\* concepts, whatever texts the process has processed before each of them.
C26_ExtractionIsStateless ==
  \A i, j \in 1..Len(ekLog) :
    ekLog[i].text = ekLog[j].text => ekLog[i].concepts = ekLog[j].concepts

\* C24: no two questions of the quiz returned by /generate-quiz have the
\* same stem.
C24_NoDuplicateStems ==
  QuizReported =>
    \A i, j \in 1..Len(zRes.questions) :
      i # j => zRes.questions[i].question # zRes.questions[j].question

\* C28: every call of generateQuestion comes to its end: its loop that pads
\* the options up to 4 never runs without making progress.
C28_GenerateQuestionTerminates ==
  qnPc = "returned" => qnOut.kind # "hang"

\* C30: the store never holds two users with the same username, and of the
\* signups for one username at most one is answered 201, every other one
\* that has been answered is answered 400 'User already exists'.
C30_OneUserPerUsername ==
  /\ \A i, j \in 1..Len(users) : i # j => users[i].username # users[j].username
  /\ \A r, q \in 1..MaxSignups :
       (r # q /\ suReq[r].username = suReq[q].username /\ suRes[r] = 201)
         => suRes[q] \in {0, 400}

\* C9: no returned segment is the empty string.
C9_NoEmptySegment ==
  splitPc = "done" => \A i \in 1..Len(splitOut) : splitOut[i] # <<>>

\* C10: an empty or whitespace-only text yields zero segments.
C10_BlankTextNoSegments ==
  (splitPc = "done" /\ IsBlank(splitText)) => splitOut = <<>>

====
